---- MODULE Spec2Model ----
(***************************************************************************)
(* Academic-Paper-Narrator: the page-processing scheduler of               *)
(* hooks/usePageProcessor.ts (extraction pool, synthesis pool, dispatch    *)
(* set, cancellation scope, page ledger).                                  *)
(*                                                                         *)
(* React model: a state variable holds the value with every queued         *)
(* updater applied (updaters are applied in queue order and a render sees  *)
(* all of them).  An effect flush (Render, or a prop change, which renders *)
(* too) runs the hook's effects in source order against the snapshot that  *)
(* render captured; updaters queued by the effects land on the latest      *)
(* state.  Async continuations (one per await) are separate actions.       *)
(* Updates to an unmounted component are dropped.                          *)
(***************************************************************************)
EXTENDS Integers, Sequences, FiniteSets, TLC

\* ---- program constants (usePageProcessor.ts:15-18)
MAX_EXTRACTION_WORKERS == 3
BATCH_SIZE_EXTRACTION == 3
MAX_SYNTHESIS_WORKERS == 3
MAX_TTS_CHARS_PER_BATCH == 4500

\* ---- bounds of the model
MaxPages == 3
MaxLoaded == 3
PoolLoaded == 4
MaxFaults == 1
RawChars == 1000

\* lengths of the non-blank sections the extraction collaborator returns for
\* the pages of one batch (a blank section, [[EMPTY]], is the outcome "empty")
TextLens == {2000, 5000}

\* cleaned-text lengths of the ledgers the selection functions are applied to
SelLens == {0, 2000, 2500, 4500, 5000}
SelPages == 3
FreshPages == 10
Modes == {"audio", "text"}

VARIABLES
    mounted,                 \* the hook's component is mounted
    pdfDoc,                  \* prop: 0 = null, 1 = the loaded document
    totalPages,              \* prop
    currentPlayingPage,      \* prop
    processingMode,          \* prop
    pages,                   \* useState: the page ledger
    activeExtractionWorkers, \* useState
    activeSynthesisWorkers,  \* useState
    apiError,                \* useState: the sticky advisory is set
    dispatchedPages,         \* dispatchedPagesRef.current
    eBatches,                \* performBatchExtraction calls in flight
    sBatches,                \* performBatchSynthesis calls in flight
    renderLock,              \* pdfService renderLock: ids of the batches whose
                             \* PDF.js call holds (head) or awaits the lock
    dirty,                   \* a state update is queued and not yet rendered
    pagesLeft,               \* pages the caller may still load
    faultsLeft,              \* failures the collaborators may still produce
    scheduler,               \* geminiService: the RequestScheduler ttsScheduler
    pdf,                     \* pdfService: the render lock and the PDF.js operations
    tts,                     \* geminiService: one page of synthesizeBatch
    wav,                     \* App: one download of the full narration
    retry,                   \* geminiService: one call of a retry loop
    extract,                 \* one response of extractScriptBatch and the texts stored
    objectUrls,              \* the browser's object URLs made by synthesizeBatch
    playback                 \* useAudioPlayback: its state, its props and its audio element

vars == <<mounted, pdfDoc, totalPages, currentPlayingPage, processingMode, pages,
          activeExtractionWorkers, activeSynthesisWorkers, apiError,
          dispatchedPages, eBatches, sBatches, renderLock, dirty, pagesLeft, faultsLeft>>

\* the state outside the hook
others == <<scheduler, pdf, tts, wav, retry, extract, objectUrls, playback>>

allvars == <<vars, others>>

\* ------------------------------------------------------------------ helpers

Range(s) == {s[k] : k \in 1..Len(s)}

RECURSIVE SumSeq(_)
SumSeq(s) == IF s = <<>> THEN 0 ELSE Head(s) + SumSeq(Tail(s))

\* Identities are kept relative to the present.  A controller is "live" or
\* "aborted": the [pdfDoc] effect body installs a live controller right
\* after its cleanup aborted the previous one, so abortControllerRef.current
\* is aborted only once the component is unmounted.  An image is 1 when it
\* shows a page of the document the ledger was initialised for, 2 when it
\* shows a page of an earlier document.
CurrentAborted == ~mounted

CurrentSignal == IF mounted THEN "live" ELSE "aborted"

\* controller.abort() of the cleanup, seen from the batches in flight
AbortScope(B) ==
    {[b EXCEPT !.scope = "aborted", !.sig = IF @ = "none" THEN @ ELSE "aborted"] : b \in B}

OldImage(img) == IF img = 0 THEN 0 ELSE 2

\* the ledger is re-initialised for another document: what the batches in
\* flight hold now belongs to an earlier document, and the rows they
\* started from are gone
OutdateExtractions(B) ==
    {[b EXCEPT !.doc = 2, !.before = <<>>,
               !.img = [k \in 1..Len(b.pgs) |-> OldImage(b.img[k])]] : b \in B}

OutdateSyntheses(B) == {[b EXCEPT !.doc = 2, !.before = <<>>] : b \in B}

NewPage == [status |-> "pending", text |-> 0, img |-> 0, audio |-> "none"]

\* copy[pageNum - 1] of a page number past the ledger is undefined
NoPage == [status |-> "absent", text |-> 0, img |-> 0, audio |-> "none"]

RowAt(pgs, p) == IF p \in 1..Len(pgs) THEN pgs[p] ELSE NoPage

InitialPages(n) == [k \in 1..n |-> NewPage]

\* updatePageStatus for every page of S, in one pass
MarkAll(pgs, S, st) ==
    [k \in 1..Len(pgs) |-> IF k \in S THEN [pgs[k] EXCEPT !.status = st] ELSE pgs[k]]

updatePageStatus(pgs, p, st) == MarkAll(pgs, {p}, st)

\* a state update reaches the ledger only while the component is mounted
Commit(pgs) == IF mounted THEN pgs ELSE pages

FreshId(B) == CHOOSE k \in 1..(Cardinality(B) + 1) :
                 /\ \A b \in B : b.id # k
                 /\ \A j \in 1..(k - 1) : \E b \in B : b.id = j

\* ------------------------------------------------------- findBatchToExtract

PendingFree(pgs, disp, k) ==
    /\ k \in 1..Len(pgs)
    /\ pgs[k].status = "pending"
    /\ k \notin disp

RECURSIVE ExtendRun(_, _, _, _, _)
ExtendRun(pgs, disp, batch, j, last) ==
    LET next == batch[1] + j IN
    IF j < BATCH_SIZE_EXTRACTION /\ next <= last /\ PendingFree(pgs, disp, next)
    THEN ExtendRun(pgs, disp, Append(batch, next), j + 1, last)
    ELSE batch

RECURSIVE ScanRun(_, _, _, _)
ScanRun(pgs, disp, k, last) ==
    IF k > last THEN <<>>
    ELSE IF PendingFree(pgs, disp, k) THEN ExtendRun(pgs, disp, <<k>>, 1, last)
    ELSE ScanRun(pgs, disp, k + 1, last)

findBatchToExtractFromTop(pgs, disp, cur, total) == ScanRun(pgs, disp, 1, total)

findBatchToExtract(pgs, disp, cur, total) ==
    LET fwd == ScanRun(pgs, disp, cur, total) IN
    IF fwd # <<>> THEN fwd ELSE ScanRun(pgs, disp, 1, cur - 1)

\* --------------------------------------------------------- findBatchToSynth
\* pages[i].status is read without a bounds check: an index past the ledger
\* throws.  Result: [throws, batch]; batch = <<>> stands for null.

RECURSIVE FirstExtracted(_, _, _)
FirstExtracted(pgs, k, last) ==
    IF k > last THEN 0
    ELSE IF k > Len(pgs) THEN -1
    ELSE IF pgs[k].status = "extracted" THEN k
    ELSE FirstExtracted(pgs, k + 1, last)

\* the budget compared with the characters gathered so far only
RECURSIVE AccumulateLate(_, _, _, _, _)
AccumulateLate(pgs, k, last, batch, chars) ==
    IF k > last THEN [throws |-> FALSE, batch |-> batch]
    ELSE IF k > Len(pgs) THEN [throws |-> TRUE, batch |-> <<>>]
    ELSE IF pgs[k].status # "extracted" THEN [throws |-> FALSE, batch |-> batch]
    ELSE IF chars <= MAX_TTS_CHARS_PER_BATCH
         THEN AccumulateLate(pgs, k + 1, last, Append(batch, k), chars + pgs[k].text)
         ELSE [throws |-> FALSE, batch |-> batch]

RECURSIVE Accumulate(_, _, _, _, _)
Accumulate(pgs, k, last, batch, chars) ==
    IF k > last THEN [throws |-> FALSE, batch |-> batch]
    ELSE IF k > Len(pgs) THEN [throws |-> TRUE, batch |-> <<>>]
    ELSE IF pgs[k].status # "extracted" THEN [throws |-> FALSE, batch |-> batch]
    ELSE IF batch = <<>>
         THEN IF pgs[k].text >= MAX_TTS_CHARS_PER_BATCH
              THEN [throws |-> FALSE, batch |-> <<k>>]
              ELSE Accumulate(pgs, k + 1, last, <<k>>, pgs[k].text)
         ELSE IF chars + pgs[k].text <= MAX_TTS_CHARS_PER_BATCH
              THEN Accumulate(pgs, k + 1, last, Append(batch, k), chars + pgs[k].text)
              ELSE [throws |-> FALSE, batch |-> batch]

findBatchToSynth(pgs, cur, total) ==
    LET a == FirstExtracted(pgs, cur, total)
        b == IF a = 0 THEN FirstExtracted(pgs, 1, total) ELSE a
    IN  IF b = -1 THEN [throws |-> TRUE, batch |-> <<>>]
        ELSE IF b = 0 THEN [throws |-> FALSE, batch |-> <<>>]
        ELSE Accumulate(pgs, b, total, <<>>, 0)

\* ------------------------------------------------ the two pool managers
\* A started performBatchExtraction: the closure captures the rendered
\* pdfDoc (doc: 1 the ledger's document, 2 an earlier one), processingMode
\* and the imageUrl of the rendered ledger rows (img); i and op are the
\* position of the raster loop (op "collab": awaiting extractScriptBatch,
\* called with signal sig); scope is the controller that was current when
\* the batch started; before holds the ledger rows of its pages at that
\* moment.
NewExtraction(B, batch, snap, pgs0, mode) ==
    [id |-> FreshId(B), pgs |-> batch, i |-> 1, op |-> "text",
     payload |-> {}, rawOk |-> {},
     doc |-> 1, mode |-> mode,
     img |-> [k \in 1..Len(batch) |-> snap[batch[k]].img],
     before |-> [k \in 1..Len(batch) |-> RowAt(pgs0, batch[k])],
     sig |-> "none", scope |-> "live"]

\* A started performBatchSynthesis: batchPages are the rendered page objects
\* (text: their originalText lengths); synthesizeBatch was called with the
\* signal sig of the controller that was current.
NewSynthesis(B, batch, snap, pgs0) ==
    [id |-> FreshId(B), pgs |-> batch,
     text |-> [k \in 1..Len(batch) |-> snap[batch[k]].text],
     before |-> [k \in 1..Len(batch) |-> RowAt(pgs0, batch[k])],
     doc |-> 1, sig |-> "live", scope |-> "live"]

ExtractionPickOffByOne(snap, disp, doc, total, cur) ==
    IF doc = 0 \/ Len(snap) = 0 THEN <<>>
    ELSE IF activeExtractionWorkers <= MAX_EXTRACTION_WORKERS
         THEN findBatchToExtract(snap, disp, cur, total)
         ELSE <<>>

\* Manager 1 (extraction pool effect): the batch it dispatches, or <<>>
ExtractionPick(snap, disp, doc, total, cur) ==
    IF doc = 0 \/ Len(snap) = 0 THEN <<>>
    ELSE IF activeExtractionWorkers < MAX_EXTRACTION_WORKERS
         THEN findBatchToExtract(snap, disp, cur, total)
         ELSE <<>>

SynthesisPickOffByOne(snap, doc, total, cur, mode) ==
    IF doc = 0 \/ Len(snap) = 0 \/ mode = "text" THEN [throws |-> FALSE, batch |-> <<>>]
    ELSE IF activeSynthesisWorkers <= MAX_SYNTHESIS_WORKERS
         THEN findBatchToSynth(snap, cur, total)
         ELSE [throws |-> FALSE, batch |-> <<>>]

\* Manager 2 (synthesis pool effect): [throws, batch]
SynthesisPick(snap, doc, total, cur, mode) ==
    IF doc = 0 \/ Len(snap) = 0 \/ mode = "text" THEN [throws |-> FALSE, batch |-> <<>>]
    ELSE IF activeSynthesisWorkers < MAX_SYNTHESIS_WORKERS
         THEN findBatchToSynth(snap, cur, total)
         ELSE [throws |-> FALSE, batch |-> <<>>]

\* pageNums.forEach(p => updatePageStatus(p, 'synthesizing'))
MarkSynthesizing(pgs, batch) == MarkAll(pgs, Range(batch), "synthesizing")

\* One flush of the two manager effects, in source order, for the render that
\* captured the ledger snap and the props doc/total/cur/mode.  pgs0 and disp0
\* are the latest ledger and dispatch set when the managers start (they
\* differ from the rendered ones after the effects that run before them).
Flush(snap, pgs0, disp0, eB0, sB0, doc, total, cur, mode) ==
    LET eb    == ExtractionPick(snap, disp0, doc, total, cur)
        sy    == SynthesisPick(snap, doc, total, cur, mode)
        sb    == sy.batch
        pgs1  == IF eb # <<>> THEN MarkAll(pgs0, Range(eb), "analyzing") ELSE pgs0
        pgs2  == IF sb # <<>> THEN MarkSynthesizing(pgs1, sb) ELSE pgs1
    IN  [pages |-> pgs2,
         disp  |-> IF eb # <<>> THEN disp0 \cup Range(eb) ELSE disp0,
         actE  |-> activeExtractionWorkers + (IF eb # <<>> THEN 1 ELSE 0),
         actS  |-> activeSynthesisWorkers + (IF sb # <<>> THEN 1 ELSE 0),
         eB    |-> IF eb # <<>>
                   THEN eB0 \cup {NewExtraction(eB0, eb, snap, pgs0, mode)}
                   ELSE eB0,
         lock  |-> IF eb # <<>> THEN Append(renderLock, FreshId(eB0)) ELSE renderLock,
         sB    |-> IF sb # <<>>
                   THEN sB0 \cup {NewSynthesis(sB0, sb, snap, pgs1)}
                   ELSE sB0,
         throws |-> sy.throws,
         changed |-> eb # <<>> \/ sb # <<>>]

\* The outcome of a flush: an exception thrown by an effect is uncaught and
\* React unmounts the tree (the [pdfDoc] cleanup aborts the scope and clears
\* the dispatch set; the queued updates are dropped).
ApplyFlush(f, basePages, reset) ==
    /\ eBatches' = (IF f.throws THEN AbortScope(f.eB) ELSE f.eB)
    /\ sBatches' = (IF f.throws THEN AbortScope(f.sB) ELSE f.sB)
    /\ renderLock' = f.lock
    /\ IF f.throws
       THEN /\ mounted' = FALSE
            /\ pages' = basePages
            /\ dispatchedPages' = {}
            /\ UNCHANGED <<activeExtractionWorkers, activeSynthesisWorkers>>
            /\ dirty' = FALSE
       ELSE /\ mounted' = TRUE
            /\ pages' = f.pages
            /\ dispatchedPages' = f.disp
            /\ activeExtractionWorkers' = f.actE
            /\ activeSynthesisWorkers' = f.actS
            /\ dirty' = (f.changed \/ reset)

Min(S) == CHOOSE x \in S : \A y \in S : x <= y

Max(S) == CHOOSE x \in S : \A y \in S : y <= x

\* ------------------------------------------ geminiService: RequestScheduler
\* Time is kept relative: sinceLast is Date.now() - lastRequestTime, timers
\* holds the remaining delay of every pending setTimeout(process) in the
\* order they were set (their deadlines never decrease in that order), both
\* capped at minInterval, beyond which the code does not distinguish.
\* task maps a task to "new" (not submitted yet), "queued", "running", "resolved", "rejected"
\* (the task's own failure) or "aborted" (rejected with an AbortError without
\* having run); signal maps it to its AbortSignal (0: none was passed).
\* since and minGap observe the dispatches: the time since the last call of
\* a task function and the smallest time seen between two such calls.
maxConcurrent == 3
minInterval == 300

NTasks == 4
NSignals == 1
Tick == 150

Tasks == 1..NTasks

SchedulerInit ==
    [queue |-> <<>>, activeCount |-> 0, sinceLast |-> minInterval, timers |-> <<>>,
     task |-> [t \in Tasks |-> "new"], signal |-> [t \in Tasks |-> 0], aborted |-> {},
     since |-> minInterval, minGap |-> minInterval]

SignalIgnored(st, t) == FALSE

\* item.signal?.aborted
IsAborted(st, t) == st.signal[t] \in st.aborted

Lesser(a, b) == IF a <= b THEN a ELSE b

\* the while loop of process(): aborted requests at the head are rejected
RECURSIVE DropAborted(_)
DropAborted(st) ==
    IF st.queue # <<>> /\ IsAborted(st, Head(st.queue))
    THEN DropAborted([st EXCEPT !.queue = Tail(@),
                                !.task[Head(st.queue)] = "aborted"])
    ELSE st

AtCapacityOffByOne(st) == st.activeCount > maxConcurrent

\* this.activeCount >= this.maxConcurrent
AtCapacity(st) == st.activeCount >= maxConcurrent

TooSoonNever(st) == FALSE

\* timeSinceLast < this.minInterval
TooSoon(st) == st.sinceLast < minInterval

RetryDropped(st) == st

\* setTimeout(() => this.process(), this.minInterval - timeSinceLast)
Retry(st) == [st EXCEPT !.timers = Append(@, minInterval - st.sinceLast)]

\* process()
RECURSIVE process(_)
process(st) ==
    IF AtCapacity(st) \/ st.queue = <<>> THEN st
    ELSE LET st1 == DropAborted(st) IN
         IF st1.queue = <<>> THEN st1
         ELSE IF TooSoon(st1)
         THEN Retry(st1)
         ELSE LET item == Head(st1.queue)
                  st2  == [st1 EXCEPT !.queue = Tail(@), !.activeCount = @ + 1,
                                      !.sinceLast = 0]
              IN  IF IsAborted(st2, item)
                  THEN process([st2 EXCEPT !.activeCount = @ - 1,
                                           !.task[item] = "aborted"])
                  ELSE process([st2 EXCEPT !.task[item] = "running",
                                           !.minGap = Lesser(@, st2.since),
                                           !.since = 0])

pushFront(queue, t) == <<t>> \o queue

\* this.queue.push(item)
push(queue, t) == Append(queue, t)

\* add(task, signal)
add(st, t, sg) ==
    IF sg \in st.aborted
    THEN [st EXCEPT !.task[t] = "aborted", !.signal[t] = sg]
    ELSE process([st EXCEPT !.task[t] = "queued", !.signal[t] = sg,
                            !.queue = push(@, t)])

\* a caller submits the next task, with a signal or without one
Add(t, sg) ==
    /\ scheduler.task[t] = "new"
    /\ \A u \in Tasks : u < t => scheduler.task[u] # "new"
    /\ scheduler' = add(scheduler, t, sg)

\* the promise of a running task settles: the .finally of process()
Settle(t, ok) ==
    /\ scheduler.task[t] = "running"
    /\ scheduler' = process([scheduler EXCEPT !.task[t] = IF ok THEN "resolved" ELSE "rejected",
                                              !.activeCount = @ - 1])

\* the oldest pending setTimeout(() => this.process(), ...) fires
TimerFires ==
    /\ scheduler.timers # <<>> /\ Head(scheduler.timers) = 0
    /\ scheduler' = process([scheduler EXCEPT !.timers = Tail(@)])

\* controller.abort() of a scope whose signal was passed to add()
AbortSignal(sg) ==
    /\ sg \notin scheduler.aborted
    /\ scheduler' = [scheduler EXCEPT !.aborted = @ \cup {sg}]

Elapse(x, d) == Lesser(x + d, minInterval)

Remaining(x, d) == IF x > d THEN x - d ELSE 0

\* time passes
TimePasses ==
    /\ \/ scheduler.sinceLast < minInterval
       \/ scheduler.since < minInterval
       \/ \E k \in 1..Len(scheduler.timers) : scheduler.timers[k] > 0
    /\ scheduler' = [scheduler EXCEPT
           !.sinceLast = Elapse(@, Tick), !.since = Elapse(@, Tick),
           !.timers = [k \in 1..Len(@) |-> Remaining(@[k], Tick)]]

exceptScheduler == <<vars, pdf, tts, wav, retry, extract, objectUrls, playback>>

NextScheduler ==
    \/ \E t \in Tasks, sg \in 0..NSignals : Add(t, sg) /\ UNCHANGED exceptScheduler
    \/ \E t \in Tasks, ok \in BOOLEAN : Settle(t, ok) /\ UNCHANGED exceptScheduler
    \/ TimerFires /\ UNCHANGED exceptScheduler
    \/ \E sg \in 1..NSignals : AbortSignal(sg) /\ UNCHANGED exceptScheduler
    \/ TimePasses /\ UNCHANGED exceptScheduler

\* ------------------------------------------------- pdfService: render lock
\* A call of extractPageText or renderPageToImage is "new", then "waiting" on
\* the promise chain renderLock, "holding" once the previous link resolved
\* (awaiting getPage), "running" while it awaits withTimeout(operation), and
\* at the end "returned", "failed" or "timedOut". chain is the order of the
\* links, holder the call whose release has not been called (0: none), and
\* ops the calls whose PDF.js operation was started and has not settled:
\* nothing in withTimeout stops the operation when the timer wins the race.
NCalls == 3

Calls == 1..NCalls

PdfInit == [chain |-> <<>>, holder |-> 0, ops |-> {}, call |-> [c \in Calls |-> "new"]]

\* const release = await acquireRenderLock(), up to the await
acquireRenderLock(c) ==
    /\ pdf.call[c] = "new"
    /\ \A d \in Calls : d < c => pdf.call[d] # "new"
    /\ pdf' = [pdf EXCEPT !.chain = Append(@, c), !.call[c] = "waiting"]

\* prev.then(() => release): the previous link is resolved
LockGranted ==
    /\ pdf.holder = 0 /\ pdf.chain # <<>>
    /\ pdf' = [pdf EXCEPT !.chain = Tail(@), !.holder = Head(pdf.chain),
                          !.call[Head(pdf.chain)] = "holding"]

FinallyWithoutRelease(st, c) == st

\* finally { release(); }
Finally(st, c) == [st EXCEPT !.holder = 0]

\* getPage settles: the operation is started under withTimeout, or the call
\* throws (getPage rejected, no canvas context)
OperationStarts(c, ok) ==
    /\ pdf.call[c] = "holding"
    /\ pdf' = IF ok THEN [pdf EXCEPT !.ops = @ \cup {c}, !.call[c] = "running"]
                    ELSE Finally([pdf EXCEPT !.call[c] = "failed"], c)

\* getTextContent() or render().promise settles; the call is still awaiting
\* it, or withTimeout has already rejected and the result is dropped
OperationSettles(c, ok) ==
    /\ c \in pdf.ops
    /\ pdf' = IF pdf.call[c] = "running"
              THEN Finally([pdf EXCEPT !.ops = @ \ {c},
                                       !.call[c] = IF ok THEN "returned" ELSE "failed"], c)
              ELSE [pdf EXCEPT !.ops = @ \ {c}]

\* the setTimeout of withTimeout fires first: the race rejects
Timeout(c) ==
    /\ pdf.call[c] = "running"
    /\ pdf' = Finally([pdf EXCEPT !.call[c] = "timedOut"], c)

exceptPdf == <<vars, scheduler, tts, wav, retry, extract, objectUrls, playback>>

NextPdf ==
    \/ \E c \in Calls : acquireRenderLock(c) /\ UNCHANGED exceptPdf
    \/ LockGranted /\ UNCHANGED exceptPdf
    \/ \E c \in Calls, ok \in BOOLEAN : OperationStarts(c, ok) /\ UNCHANGED exceptPdf
    \/ \E c \in Calls, ok \in BOOLEAN : OperationSettles(c, ok) /\ UNCHANGED exceptPdf
    \/ \E c \in Calls : Timeout(c) /\ UNCHANGED exceptPdf

\* ------------------------------------- geminiService: audio-timing of a page
\* Times are counted in samples (1/24000 s), so that the page duration
\* pcmData.length / (24000 * 2) is numSamples and a pause timestamp i / 24000
\* is i. The PCM data is a sequence of runs of samples below (silent) or not
\* below silenceThreshold; a text is a sequence of characters. Times inside a
\* sentence are fractions [n, d] with the sentence's total weight as d.
sampleRate == 24000
minSilenceMs == 250

MaxSentences == 3
MaxRuns == 4
ShortRun == 1200
LongRun == 7200

minSilenceSamples == (sampleRate * minSilenceMs) \div 1000

\* 0.1 of Math.max(sDuration, 0.1)
MinBlock == sampleRate \div 10

SentenceTexts ==
    { <<"a", ".">>,
      <<"a", "b", ",", " ", "c", ".", " ">> }

PcmRuns == [silent : BOOLEAN, len : {ShortRun, LongRun}]

SeqsUpTo(S, n) == UNION {[1..k -> S] : k \in 1..n}

numSamples(pcm) == SumSeq([k \in 1..Len(pcm) |-> pcm[k].len])

\* the scan for silence gaps: a sample that is not silent after more than
\* minSilenceSamples silent ones records its own position
RECURSIVE PauseScan(_, _, _, _)
PauseScan(pcm, k, i, currentSilenceLen) ==
    IF k > Len(pcm) THEN <<>>
    ELSE IF pcm[k].silent
    THEN PauseScan(pcm, k + 1, i + pcm[k].len, currentSilenceLen + pcm[k].len)
    ELSE (IF currentSilenceLen > minSilenceSamples THEN <<i>> ELSE <<>>)
         \o PauseScan(pcm, k + 1, i + pcm[k].len, 0)

pauseTimestamps(pcm) == PauseScan(pcm, 1, 0, 0)

\* the loop reconciling sentences with the pause timestamps
RECURSIVE BlocksFrom(_, _, _, _, _)
BlocksFrom(sentences, pauses, duration, i, currentAnchor) ==
    IF i > Len(sentences) THEN <<>>
    ELSE LET nextAnchor == IF i <= Len(pauses) /\ pauses[i] # 0
                           THEN pauses[i] ELSE duration
             span       == nextAnchor - currentAnchor
             sDuration  == IF span <= 0 /\ i = Len(sentences)
                           THEN duration - currentAnchor ELSE span
         IN  <<[text |-> sentences[i], startTime |-> currentAnchor,
                duration |-> Max({sDuration, MinBlock})]>>
             \o BlocksFrom(sentences, pauses, duration, i + 1, nextAnchor)

sentenceBlocks(sentences, pcm) ==
    BlocksFrom(sentences, pauseTimestamps(pcm), numSamples(pcm), 1, 0)

IsSpace(ch) == ch = " "

\* block.text.split(/(\s+)/).filter(t => t.length > 0)
RECURSIVE Tokens(_)
Tokens(text) ==
    IF text = <<>> THEN <<>>
    ELSE LET first == IsSpace(text[1])
             same  == {n \in 1..Len(text) : \A k \in 1..n : IsSpace(text[k]) = first}
             n     == CHOOSE m \in same : \A o \in same : o <= m
         IN  <<SubSeq(text, 1, n)>> \o Tokens(SubSeq(text, n + 1, Len(text)))

Has(t, ch) == \E k \in 1..Len(t) : t[k] = ch

isSilence(t) == \A k \in 1..Len(t) : IsSpace(t[k])

weight(t) ==
    IF isSilence(t) THEN 0
    ELSE Len(t) + (IF Has(t, ",") THEN 3 ELSE 0) + (IF Has(t, ".") THEN 5 ELSE 0)
                + (IF Has(t, ":") \/ Has(t, ";") THEN 4 ELSE 0)

\* the segments of one sentence block
RECURSIVE TokenSegments(_, _, _, _)
TokenSegments(tokens, totalWeight, blockDuration, intraTime) ==
    IF tokens = <<>> THEN <<>>
    ELSE LET t == Head(tokens)
             tokenDuration == IF isSilence(t) THEN 0 ELSE weight(t) * blockDuration
         IN  <<[text |-> t, startTime |-> [n |-> intraTime, d |-> totalWeight],
                duration |-> [n |-> tokenDuration, d |-> totalWeight],
                isSilence |-> isSilence(t)]>>
             \o TokenSegments(Tail(tokens), totalWeight, blockDuration,
                              intraTime + tokenDuration)

BlockSegments(block) ==
    LET tokens == Tokens(block.text)
        totalWeight == SumSeq([k \in 1..Len(tokens) |-> weight(tokens[k])])
    IN  TokenSegments(tokens, totalWeight, block.duration, block.startTime * totalWeight)

RECURSIVE Flatten(_)
Flatten(ss) == IF ss = <<>> THEN <<>> ELSE Head(ss) \o Flatten(Tail(ss))

pageSegments(blocks) == Flatten([k \in 1..Len(blocks) |-> BlockSegments(blocks[k])])

TtsIdle == [sentences |-> <<>>, pcm |-> <<>>, done |-> FALSE, pauses |-> <<>>,
            blocks |-> <<>>, segments |-> <<>>]

TtsInputs ==
    {[TtsIdle EXCEPT !.sentences = ss, !.pcm = pcm] :
        ss \in SeqsUpTo(SentenceTexts, MaxSentences), pcm \in SeqsUpTo(PcmRuns, MaxRuns)}

\* the body of the page loop of synthesizeBatch once the PCM data arrived
synthesizePage ==
    /\ ~tts.done /\ tts.sentences # <<>>
    /\ LET blocks == sentenceBlocks(tts.sentences, tts.pcm)
       IN  tts' = [tts EXCEPT !.done = TRUE, !.pauses = pauseTimestamps(tts.pcm),
                              !.blocks = blocks, !.segments = pageSegments(blocks)]

\* PCM data whose runs are one sample shorter than, as long as, or one
\* sample longer than the minimum silence
ScanRuns == [silent : BOOLEAN,
             len : {minSilenceSamples - 1, minSilenceSamples, minSilenceSamples + 1}]

ScanInputs ==
    {[TtsIdle EXCEPT !.sentences = <<ss>>, !.pcm = pcm] :
        ss \in SentenceTexts, pcm \in SeqsUpTo(ScanRuns, MaxRuns)}

exceptTts == <<vars, scheduler, pdf, wav, retry, extract, objectUrls, playback>>

NextTiming == synthesizePage /\ UNCHANGED exceptTts

\* ------------------------------------------------ App: waveform containers
\* A container is its sequence of bytes; blobs maps an audioUrl to the
\* container createWavBlob made for it, readyPages lists the audioUrl of the
\* ready pages in page order.
HeaderLength == 44

MaxReady == 3
NUrls == 2
MaxData == 2

Byte(x, k) == (x \div <<1, 256, 65536, 16777216>>[k]) % 256

\* DataView.setUint16 / setUint32 with littleEndian = true
Uint(x, n) == [k \in 1..n |-> Byte(x, k)]

\* writeString
Chars(str) ==
    CASE str = "RIFF" -> <<82, 73, 70, 70>>
      [] str = "WAVE" -> <<87, 65, 86, 69>>
      [] str = "fmt " -> <<102, 109, 116, 32>>
      [] str = "data" -> <<100, 97, 116, 97>>

createWavBlob(pcmData) ==
    Chars("RIFF") \o Uint(36 + Len(pcmData), 4) \o Chars("WAVE") \o Chars("fmt ")
    \o Uint(16, 4) \o Uint(1, 2) \o Uint(1, 2) \o Uint(sampleRate, 4)
    \o Uint(sampleRate * 2, 4) \o Uint(2, 2) \o Uint(16, 2) \o Chars("data")
    \o Uint(Len(pcmData), 4) \o pcmData

SliceWhole(buffer) == buffer

\* buffer.slice(44)
Slice(buffer) == SubSeq(buffer, HeaderLength + 1, Len(buffer))

\* the audioUrls of the loop over readyPages that uniqueBlobs lets through
RECURSIVE Unique(_, _)
Unique(urls, seen) ==
    IF urls = <<>> THEN <<>>
    ELSE IF Head(urls) \in seen THEN Unique(Tail(urls), seen)
    ELSE <<Head(urls)>> \o Unique(Tail(urls), seen \cup {Head(urls)})

\* finalBuffer.set / view.setUint32 at a byte offset
SetAt(buffer, offset, bytes) ==
    [k \in 1..Len(buffer) |->
        IF k > offset /\ k <= offset + Len(bytes) THEN bytes[k - offset] ELSE buffer[k]]

\* the try block of handleDownloadFull
Concatenate(readyPages, blobs) ==
    LET urls == Unique(readyPages, {})
        audioBuffers == [k \in 1..Len(urls) |-> Slice(blobs[urls[k]])]
        totalDataLength == SumSeq([k \in 1..Len(urls) |-> Len(audioBuffers[k])])
        firstBuffFull == blobs[readyPages[1]]
        header == SetAt(SetAt(SubSeq(firstBuffFull, 1, HeaderLength),
                              4, Uint(36 + totalDataLength, 4)),
                        40, Uint(totalDataLength, 4))
    IN  header \o Flatten(audioBuffers)

WavIdle == [readyPages |-> <<>>, blobs |-> <<>>, done |-> FALSE, finalBuffer |-> <<>>]

Urls == 1..NUrls

PcmData == SeqsUpTo({7, 200}, MaxData) \cup {<<>>}

WavInputs ==
    {[WavIdle EXCEPT !.readyPages = rp, !.blobs = [u \in Urls |-> createWavBlob(pd[u])]] :
        rp \in SeqsUpTo(Urls, MaxReady), pd \in [Urls -> PcmData]}

handleDownloadFull ==
    /\ ~wav.done /\ wav.readyPages # <<>>
    /\ wav' = [wav EXCEPT !.done = TRUE,
                          !.finalBuffer = Concatenate(wav.readyPages, wav.blobs)]

exceptWav == <<vars, scheduler, pdf, tts, retry, extract, objectUrls, playback>>

NextWav == handleDownloadFull /\ UNCHANGED exceptWav

\* ------------------------------------------- geminiService: the retry loops
\* One call of generateTtsWithRetry or retryGenerate.  pc is the position in
\* the loop: "top" (the signal check), "request" (awaiting generateContent),
\* "wait" (the back-off timer), "returned", "thrown".  attempt is the loop's
\* single counter; requests, transient and quota count the requests issued
\* and the failures of each kind seen so far; aborted is the signal.
TtsQuotaRetries == 5
TtsRetries == 3
retries == 5

RetryLoops == {"generateTtsWithRetry", "retryGenerate"}

QuotaCeiling(fn) == IF fn = "generateTtsWithRetry" THEN TtsQuotaRetries ELSE retries * 2

TransientCeiling(fn) == IF fn = "generateTtsWithRetry" THEN TtsRetries ELSE retries

GiveUpNever(attempt, ceiling) == FALSE

\* if (attempt >= ceiling) throw e
GiveUp(attempt, ceiling) == attempt >= ceiling

RetryIdle == [fn |-> "none", pc |-> "idle", attempt |-> 0, requests |-> 0,
              transient |-> 0, quota |-> 0, aborted |-> FALSE]

RetryInputs == {[RetryIdle EXCEPT !.fn = f, !.pc = "top"] : f \in RetryLoops}

\* the head of the while loop: throw on an aborted signal, else send
LoopTop ==
    /\ retry.pc = "top"
    /\ retry' = IF retry.aborted
                THEN [retry EXCEPT !.pc = "thrown"]
                ELSE [retry EXCEPT !.pc = "request", !.requests = @ + 1]

\* generateContent resolves (for the TTS loop: with audio data)
RequestResolves ==
    /\ retry.pc = "request"
    /\ retry' = [retry EXCEPT !.pc = "returned"]

\* generateContent rejects, or the TTS response holds no audio (thrown
\* inside the try, hence a transient failure): the catch block
RequestFails(kind) ==
    /\ retry.pc = "request"
    /\ kind = "abort" => retry.aborted
    /\ LET seen == IF kind = "quota" THEN [retry EXCEPT !.quota = @ + 1]
                   ELSE IF kind = "transient" THEN [retry EXCEPT !.transient = @ + 1]
                   ELSE retry
           ceiling == IF kind = "quota" THEN QuotaCeiling(retry.fn)
                      ELSE TransientCeiling(retry.fn)
       IN  retry' = IF kind = "abort" \/ retry.aborted \/ GiveUp(retry.attempt, ceiling)
                    THEN [seen EXCEPT !.pc = "thrown"]
                    ELSE [seen EXCEPT !.pc = "wait"]

\* the back-off timer fires: attempt++ and back to the head of the loop
WaitEnds ==
    /\ retry.pc = "wait"
    /\ retry' = [retry EXCEPT !.pc = "top", !.attempt = @ + 1]

\* the scope of the call is cancelled while the loop runs
AbortRetry ==
    /\ retry.pc \in {"top", "request", "wait"} /\ ~retry.aborted
    /\ retry' = [retry EXCEPT !.aborted = TRUE]

exceptRetry == <<vars, scheduler, pdf, tts, wav, extract, objectUrls, playback>>

NextRetry ==
    \/ LoopTop /\ UNCHANGED exceptRetry
    \/ RequestResolves /\ UNCHANGED exceptRetry
    \/ \E kind \in {"abort", "quota", "transient"} : RequestFails(kind) /\ UNCHANGED exceptRetry
    \/ WaitEnds /\ UNCHANGED exceptRetry
    \/ AbortRetry /\ UNCHANGED exceptRetry

\* ------------------------------ the text stored for the pages of one batch
\* A text is a sequence of tokens: a word, a blank, or one of the two
\* sentinels.  pageNums is the selected batch, payload the pages that got an
\* image, rawText the rawTextMap ("" when extractPageText threw), sections
\* the response split at ---PAGE_BREAK---; stored maps the pages written by
\* the updater to their originalText.
ClnPages == 2
MaxSections == 3
MaxTokens == 2

Sentinels == {"[[EMPTY]]", "[[SKIPPED_SECTION]]"}

TextTokens == {"w", " "} \cup Sentinels

RawTexts == {<<>>, <<" ", "r">>}

SectionTexts == {<<>>} \cup SeqsUpTo(TextTokens, MaxTokens)

NotSentinel(ch) == ch \notin Sentinels

\* .replace(/\[\[EMPTY\]\]/g, "").replace(/\[\[SKIPPED_SECTION\]\]/g, "")
RemoveSentinels(text) == SelectSeq(text, NotSentinel)

RECURSIVE trimStart(_)
trimStart(text) ==
    IF text # <<>> /\ IsSpace(Head(text)) THEN trimStart(Tail(text)) ELSE text

RECURSIVE trimEnd(_)
trimEnd(text) ==
    IF text # <<>> /\ IsSpace(text[Len(text)])
    THEN trimEnd(SubSeq(text, 1, Len(text) - 1)) ELSE text

trim(text) == trimEnd(trimStart(text))

\* batchPayload.sort((a, b) => a.pageNum - b.pageNum)
RECURSIVE SortedPayload(_)
SortedPayload(P) ==
    IF P = {} THEN <<>> ELSE <<Min(P)>> \o SortedPayload(P \ {Min(P)})

\* splitResults[index] || ""
SectionAt(splitResults, index) ==
    IF index <= Len(splitResults) THEN splitResults[index] ELSE <<>>

\* the Map extractScriptBatch returns for the sorted payload
extractScriptBatch(payload, splitResults) ==
    [p \in Range(payload) |->
        LET index == CHOOSE j \in 1..Len(payload) : payload[j] = p
        IN  trim(RemoveSentinels(SectionAt(splitResults, index)))]

originalTextWithoutFallback(llmText, rawText) == llmText

\* llmText.trim() ? llmText : (rawTextMap.get(pageNum) || "")
originalText(llmText, rawText) == IF trim(llmText) # <<>> THEN llmText ELSE rawText

ExtractIdle == [pageNums |-> {}, payload |-> {}, rawText |-> <<>>,
                sections |-> <<>>, done |-> FALSE, stored |-> <<>>]

ExtractInputs ==
    {[ExtractIdle EXCEPT !.pageNums = 1..n, !.payload = P, !.rawText = rt, !.sections = ss] :
        n \in {ClnPages}, P \in (SUBSET (1..ClnPages)) \ {{}},
        rt \in [1..ClnPages -> RawTexts], ss \in SeqsUpTo(SectionTexts, MaxSections)}

\* extractScriptBatch parses the response and the updater stores the text of
\* every page of the batch that is still analyzing (the pages of the payload)
storeResults ==
    /\ ~extract.done /\ extract.payload # {}
    /\ LET resultsMap == extractScriptBatch(SortedPayload(extract.payload), extract.sections)
       IN  extract' = [extract EXCEPT
               !.done = TRUE,
               !.stored = [p \in extract.payload |->
                              originalText(resultsMap[p], extract.rawText[p])]]

exceptExtract == <<vars, scheduler, pdf, tts, wav, retry, objectUrls, playback>>

NextExtract == storeResults /\ UNCHANGED exceptExtract

\* ------------------------------------------------ object URLs of waveforms
\* unreleased counts the URLs URL.createObjectURL returned to synthesizeBatch
\* and URL.revokeObjectURL has not been called on.
UrlsInit == [unreleased |-> 0]

\* ---------------------------------------------------------- useAudioPlayback
\* totalPages, pages and currentPlayingPage are the hook's props (the caller's
\* state); shown holds the values the last render closed over; src is the
\* page whose audio the element has loaded (0 for none); position is the
\* element's currentTime against the end of the page's last segment; queued
\* counts the handlers that have run since the last render.
PlaybackIdle ==
    [totalPages |-> 0, pages |-> <<>>, currentPlayingPage |-> 1, playbackState |-> "IDLE",
     shown |-> [currentPlayingPage |-> 1, playbackState |-> "IDLE"],
     src |-> 0, paused |-> TRUE, position |-> "start", queued |-> 0]

PlayPages == 3
MaxQueued == 2

\* a ledger row as the hook reads it: 'pending' stands for the four statuses
\* of line 109; a page with audio has segments
PlaybackRows ==
    {[status |-> "pending", audioUrl |-> FALSE], [status |-> "error", audioUrl |-> FALSE],
     [status |-> "ready", audioUrl |-> FALSE], [status |-> "ready", audioUrl |-> TRUE]}

\* audio.play() on the loaded source; after the end it starts over
play(st) == [st EXCEPT !.paused = FALSE,
                       !.position = IF @ = "ended" THEN "start" ELSE @]

\* the effect "Handle source changes and play/pause" in audio mode with a
\* document loaded, run against the values of the render
SourceEffect(st) ==
    LET cur  == st.shown.currentPlayingPage
        ps   == st.shown.playbackState
        page == st.pages[cur]
    IN  IF cur \notin 1..Len(st.pages) \/ page.status = "pending"
        THEN IF ps = "PLAYING" THEN [st EXCEPT !.playbackState = "BUFFERING"] ELSE st
        ELSE IF page.status = "ready" /\ ~page.audioUrl
        THEN IF ps # "PLAYING" THEN st
             ELSE IF cur < st.totalPages
                  THEN [st EXCEPT !.currentPlayingPage = @ + 1]
                  ELSE [st EXCEPT !.playbackState = "IDLE"]
        ELSE IF page.status = "ready"
        THEN LET loaded == IF st.src # cur
                           THEN [st EXCEPT !.src = cur, !.position = "start", !.paused = TRUE]
                           ELSE st
                 played == IF ps = "PLAYING" THEN play(loaded)
                           ELSE IF ps = "PAUSED" THEN [loaded EXCEPT !.paused = TRUE]
                           ELSE loaded
             IN  IF ps = "BUFFERING" THEN [played EXCEPT !.playbackState = "PLAYING"]
                 ELSE played
        ELSE st

\* the values a render would close over
Latest(st) == [currentPlayingPage |-> st.currentPlayingPage, playbackState |-> st.playbackState]

\* the hook after a render and its effects
Rendered(st) == SourceEffect([st EXCEPT !.shown = Latest(st), !.queued = 0])

\* React renders after state updates and runs the effects whose
\* dependencies changed
RenderPlayback ==
    /\ playback.queued > 0 \/ playback.shown # Latest(playback)
    /\ playback' = Rendered(playback)

\* a handler may run while fewer than MaxQueued have run since the render
MayRun == playback.totalPages > 0 /\ playback.queued < MaxQueued

Handled(st) == [st EXCEPT !.queued = @ + 1]

\* the element plays up to 0.1 s before the end of the last segment
AudioPlays ==
    /\ playback.totalPages > 0 /\ playback.src # 0
    /\ ~playback.paused /\ playback.position = "start"
    /\ playback' = [playback EXCEPT !.position = "nearEnd"]

\* the updater of handleEnded, reading totalPagesRef
EndedUpdater(st) ==
    IF st.currentPlayingPage < st.totalPages
    THEN [st EXCEPT !.currentPlayingPage = @ + 1]
    ELSE [st EXCEPT !.playbackState = "IDLE"]

\* the element reaches its end and fires 'ended'
handleEnded ==
    /\ MayRun /\ playback.src # 0
    /\ ~playback.paused /\ playback.position = "nearEnd"
    /\ playback' = Handled(EndedUpdater([playback EXCEPT !.position = "ended", !.paused = TRUE]))

\* setCurrentPlayingPage(p => p + 1) behind the render's
\* currentPlayingPage < totalPages, else setPlaybackState(IDLE)
AdvanceOrIdle(st) ==
    IF st.shown.currentPlayingPage < st.totalPages
    THEN [st EXCEPT !.currentPlayingPage = @ + 1]
    ELSE [st EXCEPT !.playbackState = "IDLE"]

\* one tick of the 100 ms interval of the continuous playback check
PollTick ==
    LET cur == playback.shown.currentPlayingPage
    IN  /\ MayRun
        /\ playback.shown.playbackState = "PLAYING"
        /\ cur \in 1..Len(playback.pages) /\ playback.pages[cur].audioUrl
        /\ playback.src = cur /\ playback.position \in {"nearEnd", "ended"}
        /\ playback' = Handled(AdvanceOrIdle(playback))

\* the media session's 'nexttrack' and 'previoustrack' handlers
nexttrack ==
    /\ MayRun
    /\ playback.shown.currentPlayingPage < playback.totalPages
    /\ playback' = Handled([playback EXCEPT !.currentPlayingPage = @ + 1])

previoustrack ==
    /\ MayRun
    /\ playback.shown.currentPlayingPage > 1
    /\ playback' = Handled([playback EXCEPT !.currentPlayingPage = @ - 1])

togglePlayPause ==
    /\ MayRun
    /\ playback' = Handled([playback EXCEPT !.playbackState =
                       IF @ \in {"PLAYING", "BUFFERING"} THEN "PAUSED" ELSE "PLAYING"])

\* the hook right after its first render over a loaded document
PlaybackInputs ==
    {Rendered([PlaybackIdle EXCEPT !.totalPages = Len(rows), !.pages = rows]) :
        rows \in UNION {[1..n -> PlaybackRows] : n \in 1..PlayPages}}

exceptPlayback == <<vars, scheduler, pdf, tts, wav, retry, extract, objectUrls>>

NextPlayback ==
    \/ RenderPlayback /\ UNCHANGED exceptPlayback
    \/ AudioPlays /\ UNCHANGED exceptPlayback
    \/ handleEnded /\ UNCHANGED exceptPlayback
    \/ PollTick /\ UNCHANGED exceptPlayback
    \/ nexttrack /\ UNCHANGED exceptPlayback
    \/ previoustrack /\ UNCHANGED exceptPlayback
    \/ togglePlayPause /\ UNCHANGED exceptPlayback

\* the state outside the hook after module load
ServicesInit == scheduler = SchedulerInit /\ pdf = PdfInit

OthersInit == ServicesInit /\ tts = TtsIdle /\ wav = WavIdle /\ retry = RetryIdle /\ extract = ExtractIdle
              /\ objectUrls = UrlsInit
              /\ playback = PlaybackIdle

\* ------------------------------------------------------------------ actions

\* The hook right after its first render, with the budgets of a run.
Start(loadable, failures) ==
    /\ mounted = TRUE
    /\ pdfDoc = 0
    /\ totalPages = 0
    /\ currentPlayingPage = 1
    /\ processingMode \in Modes
    /\ pages = <<>>
    /\ activeExtractionWorkers = 0
    /\ activeSynthesisWorkers = 0
    /\ apiError = FALSE
    /\ dispatchedPages = {}
    /\ eBatches = {}
    /\ sBatches = {}
    /\ renderLock = <<>>
    /\ dirty = FALSE
    /\ pagesLeft = loadable
    /\ faultsLeft = failures

Init == Start(MaxLoaded, MaxFaults) /\ OthersInit

\* A render of queued state updates, followed by the manager effects.
Render ==
    /\ mounted /\ dirty
    /\ ApplyFlush(Flush(pages, pages, dispatchedPages, eBatches, sBatches, pdfDoc,
                        totalPages, currentPlayingPage, processingMode), pages, FALSE)
    /\ UNCHANGED <<pdfDoc, totalPages, currentPlayingPage, processingMode,
                   apiError, pagesLeft, faultsLeft>>

\* The caller loads a document of n pages: pdfDoc and totalPages
\* change.  Effects in source order: [pdfDoc] cleanup (abort, clear) and
\* body (new controller); [totalPages] body (ledger re-initialised, clear);
\* then the managers, which still see the ledger this render captured.
LoadDocument(n) ==
    /\ mounted /\ pdfDoc = 0 /\ n <= pagesLeft
    /\ pagesLeft' = pagesLeft - n
    /\ pdfDoc' = 1
    /\ totalPages' = n
    /\ currentPlayingPage' = 1
    /\ ApplyFlush(Flush([k \in 1..Len(pages) |-> [pages[k] EXCEPT !.img = OldImage(@)]],
                        InitialPages(n), {},
                        OutdateExtractions(AbortScope(eBatches)),
                        OutdateSyntheses(AbortScope(sBatches)),
                        1, n, 1, processingMode), pages, TRUE)
    /\ UNCHANGED <<processingMode, apiError, faultsLeft>>

\* The caller unloads the document: pdfDoc becomes null and totalPages 0.
\* [pdfDoc] cleanup and body run; the [totalPages] body and the managers
\* return at their guards.
CloseDocument ==
    /\ mounted /\ pdfDoc # 0
    /\ pdfDoc' = 0
    /\ totalPages' = 0
    /\ currentPlayingPage' = 1
    /\ eBatches' = AbortScope(eBatches)
    /\ sBatches' = AbortScope(sBatches)
    /\ dispatchedPages' = {}
    /\ dirty' = FALSE
    /\ UNCHANGED <<mounted, processingMode, pages, activeExtractionWorkers,
                   activeSynthesisWorkers, apiError, renderLock, pagesLeft, faultsLeft>>

\* The mode is chosen on the upload screen, which is shown while no document
\* is loaded.  The render it causes finds the managers at their guards.
SetMode(m) ==
    /\ mounted /\ pdfDoc = 0 /\ m # processingMode
    /\ processingMode' = m
    /\ dirty' = FALSE
    /\ UNCHANGED <<mounted, pdfDoc, totalPages, currentPlayingPage, pages,
                   activeExtractionWorkers, activeSynthesisWorkers, apiError,
                   dispatchedPages, eBatches, sBatches, renderLock, pagesLeft,
                   faultsLeft>>

\* The view position moves by one page (next / previous).
MovePage(c) ==
    /\ mounted /\ pdfDoc # 0
    /\ c \in 1..totalPages
    /\ c = currentPlayingPage + 1 \/ c = currentPlayingPage - 1
    /\ currentPlayingPage' = c
    /\ ApplyFlush(Flush(pages, pages, dispatchedPages, eBatches, sBatches, pdfDoc,
                        totalPages, c, processingMode), pages, FALSE)
    /\ UNCHANGED <<pdfDoc, totalPages, processingMode, apiError, pagesLeft, faultsLeft>>

\* The component unmounts: the [pdfDoc] cleanup aborts the controller and
\* clears the dispatch set.
Unmount ==
    /\ mounted
    /\ mounted' = FALSE
    /\ eBatches' = AbortScope(eBatches)
    /\ sBatches' = AbortScope(sBatches)
    /\ dispatchedPages' = {}
    /\ dirty' = FALSE
    /\ UNCHANGED <<pdfDoc, totalPages, currentPlayingPage, processingMode, pages,
                   activeExtractionWorkers, activeSynthesisWorkers, apiError,
                   renderLock, pagesLeft, faultsLeft>>

\* ---- performBatchExtraction, one action per await

SetImage(pgs, p, img) ==
    [k \in 1..Len(pgs) |-> IF k = p THEN [pgs[k] EXCEPT !.img = img] ELSE pgs[k]]

ExtractionSettledWithoutDecrement(b) ==
    /\ eBatches' = eBatches \ {b}
    /\ dispatchedPages' = dispatchedPages \ Range(b.pgs)
    /\ UNCHANGED activeExtractionWorkers

\* The .finally of a dispatched extraction batch.
ExtractionSettled(b) ==
    /\ eBatches' = eBatches \ {b}
    /\ dispatchedPages' = dispatchedPages \ Range(b.pgs)
    /\ activeExtractionWorkers' =
           IF mounted THEN activeExtractionWorkers - 1 ELSE activeExtractionWorkers

\* The raster loop of batch b (its record now nb) moves past page b.i with
\* payload pl: the next page's extractPageText queues for the render lock;
\* after the last page the batch
\* returns (empty payload) or calls extractScriptBatch with the signal of
\* the controller that is current now.
LoopAdvance(b, nb, pl, changed) ==
    LET b1 == [nb EXCEPT !.i = b.i + 1, !.op = "text", !.payload = pl] IN
    IF b.i < Len(b.pgs)
    THEN /\ eBatches' = (eBatches \ {b}) \cup {b1}
         /\ renderLock' = Append(Tail(renderLock), b.id)
         /\ dirty' = (dirty \/ (mounted /\ changed))
         /\ UNCHANGED <<dispatchedPages, activeExtractionWorkers>>
    ELSE IF pl = {}
    THEN /\ ExtractionSettled(b)
         /\ renderLock' = Tail(renderLock)
         /\ dirty' = (dirty \/ mounted)
    ELSE /\ eBatches' = (eBatches \ {b}) \cup {[b1 EXCEPT !.op = "collab", !.sig = CurrentSignal]}
         /\ renderLock' = Tail(renderLock)
         /\ dirty' = (dirty \/ (mounted /\ changed))
         /\ UNCHANGED <<dispatchedPages, activeExtractionWorkers>>

\* extractPageText of page b.i returns (ok) or throws ("Text fallthrough").
\* A page whose rendered ledger row holds an image skips the render.
TextReturn(b, ok) ==
    /\ b \in eBatches /\ b.op = "text"
    /\ renderLock # <<>> /\ Head(renderLock) = b.id
    /\ ~ok => faultsLeft > 0
    /\ faultsLeft' = IF ok THEN faultsLeft ELSE faultsLeft - 1
    /\ LET p  == b.pgs[b.i]
           b0 == [b EXCEPT !.rawOk = IF ok THEN @ \cup {p} ELSE @] IN
       IF b.img[b.i] # 0
       THEN LoopAdvance(b, b0, b.payload \cup {p}, FALSE)
       ELSE /\ eBatches' = (eBatches \ {b}) \cup {[b0 EXCEPT !.op = "render"]}
            /\ renderLock' = Append(Tail(renderLock), b.id)
            /\ UNCHANGED <<dispatchedPages, activeExtractionWorkers, dirty>>
    /\ UNCHANGED <<mounted, pdfDoc, totalPages, currentPlayingPage, processingMode,
                   pages, activeSynthesisWorkers, apiError, sBatches, pagesLeft>>

RasterFailedIgnored(pgs, p) == pgs

\* no image for the page: it is set to error so that it does not hang in
\* analyzing
RasterFailed(pgs, p) == updatePageStatus(pgs, p, "error")

\* renderPageToImage of page b.i returns (ok: the image is stored in the
\* ledger) or throws (the page is set to error).
RenderReturn(b, ok) ==
    /\ b \in eBatches /\ b.op = "render"
    /\ renderLock # <<>> /\ Head(renderLock) = b.id
    /\ ~ok => faultsLeft > 0
    /\ faultsLeft' = IF ok THEN faultsLeft ELSE faultsLeft - 1
    /\ LET p == b.pgs[b.i] IN
       /\ pages' = Commit(IF ok THEN SetImage(pages, p, b.doc)
                          ELSE RasterFailed(pages, p))
       /\ LoopAdvance(b, b, IF ok THEN b.payload \cup {p} ELSE b.payload, TRUE)
    /\ UNCHANGED <<mounted, pdfDoc, totalPages, currentPlayingPage, processingMode,
                   activeSynthesisWorkers, apiError, sBatches, pagesLeft>>

\* The cleaned text of page p from a response whose sections have length L
\* (resultsMap holds the payload pages only; blank falls back to the raw text).
CleanedText(b, p, L) ==
    IF p \in b.payload /\ L > 0 THEN L
    ELSE IF p \in b.rawOk THEN RawChars ELSE 0

ApplyExtractionUnguarded(pgs, b, L) ==
    [k \in 1..Len(pgs) |->
        IF k \in Range(b.pgs)
        THEN [pgs[k] EXCEPT !.text = CleanedText(b, k, L),
                            !.status = IF b.mode = "text" THEN "ready" ELSE "extracted"]
        ELSE pgs[k]]

\* the updater applying the result of extractScriptBatch
ApplyExtraction(pgs, b, L) ==
    [k \in 1..Len(pgs) |->
        IF k \in Range(b.pgs) /\ pgs[k].status = "analyzing"
        THEN [pgs[k] EXCEPT !.text = CleanedText(b, k, L),
                            !.status = IF b.mode = "text" THEN "ready" ELSE "extracted"]
        ELSE pgs[k]]

setApiErrorOverwritten(prev, quota) == quota

\* the advisory after a settled batch: setApiError is called with a message
\* on a 429 and never with undefined
setApiError(prev, quota) == prev \/ quota

\* extractScriptBatch settles: "ok" with sections of length L, "empty" (blank
\* sections), "abort" (an AbortError, possible once the signal it was given
\* is aborted), "quota" (429, retries exhausted) or "error".  The
\* collaborator call does not stop at an abort by itself: it may still
\* return or fail afterwards.
ExtractReturn(b, out, L) ==
    /\ b \in eBatches /\ b.op = "collab"
    /\ out = "abort" => b.sig = "aborted"
    /\ out = "ok" <=> L > 0
    /\ out \in {"empty", "quota", "error"} => faultsLeft > 0
    /\ faultsLeft' = IF out \in {"empty", "quota", "error"} THEN faultsLeft - 1 ELSE faultsLeft
    /\ LET silent == out = "abort" \/ CurrentAborted IN
           /\ pages' = IF silent THEN pages
                       ELSE IF out \in {"ok", "empty"}
                            THEN Commit(ApplyExtraction(pages, b, L))
                            ELSE Commit(MarkAll(pages, Range(b.pgs), "error"))
           /\ apiError' = setApiError(apiError, ~silent /\ out = "quota" /\ mounted)
    /\ ExtractionSettled(b)
    /\ dirty' = (dirty \/ mounted)
    /\ UNCHANGED <<mounted, pdfDoc, totalPages, currentPlayingPage, processingMode,
                   activeSynthesisWorkers, sBatches, renderLock, pagesLeft>>

\* ---- performBatchSynthesis

AllEmpty(b) == \A k \in 1..Len(b.pgs) : b.text[k] = 0

ApplySynthesisWithoutSpread(pgs, b) ==
    [k \in 1..Len(pgs) |->
        IF k \in Range(b.pgs)
        THEN [NewPage EXCEPT !.audio = "blob", !.status = "ready"]
        ELSE pgs[k]]

\* the updater applying the result of synthesizeBatch
ApplySynthesis(pgs, b) ==
    [k \in 1..Len(pgs) |->
        IF k \in Range(b.pgs)
        THEN LET j == CHOOSE j \in 1..Len(b.pgs) : b.pgs[j] = k IN
             [pgs[k] EXCEPT !.audio = IF b.text[j] = 0 THEN "empty" ELSE "blob",
                            !.status = "ready"]
        ELSE pgs[k]]

SynthesisFailedIgnored(pgs, b) == pgs

SynthesisFailedAsError(pgs, b) == MarkAll(pgs, Range(b.pgs), "error")

\* the catch of performBatchSynthesis for an error that is not a cancellation
SynthesisFailed(pgs, b) == MarkAll(pgs, Range(b.pgs), "ready")

\* synthesizeBatch settles.  It checks its signal after every scheduler
\* await, so it resolves under an aborted signal only when no page needed a
\* request; a request that fails under an aborted signal rethrows its error.
SynthReturn(b, out) ==
    /\ b \in sBatches
    /\ out = "abort" => b.sig = "aborted" /\ ~AllEmpty(b)
    /\ out = "ok" => b.sig = "live" \/ AllEmpty(b)
    /\ out \in {"quota", "error"} => faultsLeft > 0 /\ ~AllEmpty(b)
    /\ faultsLeft' = IF out \in {"quota", "error"} THEN faultsLeft - 1 ELSE faultsLeft
    /\ LET silent == out = "abort" \/ CurrentAborted IN
           /\ pages' = IF silent THEN pages
                       ELSE IF out = "ok" THEN Commit(ApplySynthesis(pages, b))
                       ELSE Commit(SynthesisFailed(pages, b))
           /\ apiError' = setApiError(apiError, ~silent /\ out = "quota" /\ mounted)
    /\ sBatches' = sBatches \ {b}
    /\ activeSynthesisWorkers' =
           IF mounted THEN activeSynthesisWorkers - 1 ELSE activeSynthesisWorkers
    /\ dirty' = (dirty \/ mounted)
    /\ UNCHANGED <<mounted, pdfDoc, totalPages, currentPlayingPage, processingMode,
                   activeExtractionWorkers, dispatchedPages, eBatches,
                   renderLock, pagesLeft>>

Outcomes == {"ok", "empty", "abort", "quota", "error"}

Next ==
    \/ Render /\ UNCHANGED others
    \/ \E n \in 1..MaxPages : LoadDocument(n) /\ UNCHANGED others
    \/ CloseDocument /\ UNCHANGED others
    \/ \E m \in Modes : SetMode(m) /\ UNCHANGED others
    \/ \E c \in {currentPlayingPage - 1, currentPlayingPage + 1} :
          MovePage(c) /\ UNCHANGED others
    \/ Unmount /\ UNCHANGED others
    \/ \E b \in eBatches, ok \in BOOLEAN : TextReturn(b, ok) /\ UNCHANGED others
    \/ \E b \in eBatches, ok \in BOOLEAN : RenderReturn(b, ok) /\ UNCHANGED others
    \/ \E b \in eBatches, out \in Outcomes, L \in TextLens \cup {0} :
          ExtractReturn(b, out, L) /\ UNCHANGED others
    \/ \E b \in sBatches, out \in Outcomes \ {"empty"} :
          SynthReturn(b, out) /\ UNCHANGED others

Spec == Init /\ [][Next]_allvars

\* ---- one document under a scope that is never cancelled: the caller loads
\* a document and only moves the view afterwards.  In the fair specification
\* queued state updates are rendered and every PDF.js and collaborator call
\* returns or fails.
LivePages == 3
LiveFaults == 2

InitLive == Start(LivePages, LiveFaults) /\ OthersInit

NextLive ==
    \/ Render /\ UNCHANGED others
    \/ \E n \in 1..LivePages : LoadDocument(n) /\ UNCHANGED others
    \/ \E c \in {currentPlayingPage - 1, currentPlayingPage + 1} :
          MovePage(c) /\ UNCHANGED others
    \/ \E b \in eBatches, ok \in BOOLEAN : TextReturn(b, ok) /\ UNCHANGED others
    \/ \E b \in eBatches, ok \in BOOLEAN : RenderReturn(b, ok) /\ UNCHANGED others
    \/ \E b \in eBatches, out \in Outcomes, L \in TextLens \cup {0} :
          ExtractReturn(b, out, L) /\ UNCHANGED others
    \/ \E b \in sBatches, out \in Outcomes \ {"empty"} :
          SynthReturn(b, out) /\ UNCHANGED others

SpecLive == InitLive /\ [][NextLive]_allvars

FairLive ==
    /\ SpecLive
    /\ WF_allvars(Render /\ UNCHANGED others)
    /\ WF_allvars((\E b \in eBatches, ok \in BOOLEAN : TextReturn(b, ok)) /\ UNCHANGED others)
    /\ WF_allvars((\E b \in eBatches, ok \in BOOLEAN : RenderReturn(b, ok)) /\ UNCHANGED others)
    /\ WF_allvars((\E b \in eBatches, out \in Outcomes, L \in TextLens \cup {0} :
                      ExtractReturn(b, out, L)) /\ UNCHANGED others)
    /\ WF_allvars((\E b \in sBatches, out \in Outcomes \ {"empty"} :
                      SynthReturn(b, out)) /\ UNCHANGED others)

\* ---- the RequestScheduler on its own; in the fair specification running
\* tasks settle, timers fire and time passes
InitServices == Init /\ processingMode = "audio"

SpecScheduler == InitServices /\ [][NextScheduler]_allvars

FairScheduler ==
    /\ SpecScheduler
    /\ WF_allvars(TimerFires /\ UNCHANGED exceptScheduler)
    /\ WF_allvars(TimePasses /\ UNCHANGED exceptScheduler)
    /\ \A t \in Tasks :
          WF_allvars((\E ok \in BOOLEAN : Settle(t, ok)) /\ UNCHANGED exceptScheduler)

\* ---- the audio-timing reconstruction over every text and PCM shape
InitTiming ==
    /\ Start(0, 0) /\ processingMode = "audio"
    /\ ServicesInit
    /\ tts \in TtsInputs
    /\ wav = WavIdle
    /\ retry = RetryIdle
    /\ extract = ExtractIdle
    /\ objectUrls = UrlsInit
    /\ playback = PlaybackIdle

SpecTiming == InitTiming /\ [][NextTiming]_allvars

\* ---- the export of the narration over every list of ready pages
InitWav ==
    /\ Start(0, 0) /\ processingMode = "audio"
    /\ ServicesInit
    /\ tts = TtsIdle
    /\ wav \in WavInputs
    /\ retry = RetryIdle
    /\ extract = ExtractIdle
    /\ objectUrls = UrlsInit
    /\ playback = PlaybackIdle

SpecWav == InitWav /\ [][NextWav]_allvars

\* ---- the retry loops on their own; in the fair specification requests
\* settle and timers fire
InitRetry ==
    /\ Start(0, 0) /\ processingMode = "audio"
    /\ ServicesInit
    /\ tts = TtsIdle
    /\ wav = WavIdle
    /\ retry \in RetryInputs
    /\ extract = ExtractIdle
    /\ objectUrls = UrlsInit
    /\ playback = PlaybackIdle

SpecRetry == InitRetry /\ [][NextRetry]_allvars

FairRetry ==
    /\ SpecRetry
    /\ WF_allvars(LoopTop /\ UNCHANGED exceptRetry)
    /\ WF_allvars(WaitEnds /\ UNCHANGED exceptRetry)
    /\ WF_allvars((RequestResolves \/ \E kind \in {"abort", "quota", "transient"} : RequestFails(kind))
                  /\ UNCHANGED exceptRetry)

\* ---- the stored text over every response shape
InitExtract ==
    /\ Start(0, 0) /\ processingMode = "audio"
    /\ ServicesInit
    /\ tts = TtsIdle
    /\ wav = WavIdle
    /\ retry = RetryIdle
    /\ extract \in ExtractInputs
    /\ objectUrls = UrlsInit
    /\ playback = PlaybackIdle

SpecExtract == InitExtract /\ [][NextExtract]_allvars

\* ---- the silence scan over runs around the minimum silence
InitScan ==
    /\ Start(0, 0) /\ processingMode = "audio"
    /\ ServicesInit
    /\ tts \in ScanInputs
    /\ wav = WavIdle
    /\ retry = RetryIdle
    /\ extract = ExtractIdle
    /\ objectUrls = UrlsInit
    /\ playback = PlaybackIdle

SpecScan == InitScan /\ [][NextTiming]_allvars

\* ---- the hook together with the object URLs of its waveforms: one
\* document at a time in audio mode, unmounted at any moment
UrlPages == 2
UrlFaults == 1

\* rows of the ledger that hold a blob: URL
Held(pgs) == Cardinality({k \in 1..Len(pgs) : pgs[k].audio = "blob"})

\* pages of a synthesis batch that get a request and a waveform
Voiced(b) == Cardinality({k \in 1..Len(b.pgs) : b.text[k] # 0})

\* synthesizeBatch makes the URL of a page before it turns to the next one:
\* a resolved call has made one per voiced page, a call that throws has made
\* those of the j pages before the one it threw at.  The updater revokes the
\* blob: URL of every row it replaces.
TrackSynthesis(b, out, j) ==
    LET applied == out = "ok" /\ ~CurrentAborted
        revoked == IF applied
                   THEN Cardinality({p \in Range(b.pgs) : RowAt(pages, p).audio = "blob"})
                   ELSE 0
    IN  /\ j \in 0..Max({Voiced(b) - 1, 0})
        /\ out = "ok" => j = 0
        /\ objectUrls' = [objectUrls EXCEPT !.unreleased =
                        @ + (IF out = "ok" THEN Voiced(b) ELSE j) - revoked]

\* the unmount cleanup: the updater given to setPages revokes the blob: URL
\* of every row
RevokeAll == objectUrls' = [objectUrls EXCEPT !.unreleased = @ - Held(pages)]

exceptUrls == <<scheduler, pdf, tts, wav, retry, extract, playback>>

InitUrls == Start(UrlPages, UrlFaults) /\ processingMode = "audio" /\ OthersInit

NextUrls ==
    \/ Render /\ UNCHANGED others
    \/ \E n \in 1..UrlPages : LoadDocument(n) /\ UNCHANGED others
    \/ Unmount /\ RevokeAll /\ UNCHANGED exceptUrls
    \/ \E b \in eBatches, ok \in BOOLEAN : TextReturn(b, ok) /\ UNCHANGED others
    \/ \E b \in eBatches, ok \in BOOLEAN : RenderReturn(b, ok) /\ UNCHANGED others
    \/ \E b \in eBatches, out \in Outcomes, L \in TextLens \cup {0} :
          ExtractReturn(b, out, L) /\ UNCHANGED others
    \/ \E b \in sBatches, out \in Outcomes \ {"empty"}, j \in 0..UrlPages :
          SynthReturn(b, out) /\ TrackSynthesis(b, out, j) /\ UNCHANGED exceptUrls

SpecUrls == InitUrls /\ [][NextUrls]_allvars

\* ---- useAudioPlayback on its own, in audio mode over a loaded document
InitPlayback ==
    /\ Start(0, 0) /\ processingMode = "audio"
    /\ ServicesInit
    /\ tts = TtsIdle
    /\ wav = WavIdle
    /\ retry = RetryIdle
    /\ extract = ExtractIdle
    /\ objectUrls = UrlsInit
    /\ playback \in PlaybackInputs

SpecPlayback == InitPlayback /\ [][NextPlayback]_allvars

\* ---- the render lock on its own; in the fair specification promise
\* reactions run, getPage settles and a started operation settles or its
\* timer fires
SpecPdf == InitServices /\ [][NextPdf]_allvars

FairPdf ==
    /\ SpecPdf
    /\ WF_allvars(LockGranted /\ UNCHANGED exceptPdf)
    /\ \A c \in Calls :
          /\ WF_allvars((\E ok \in BOOLEAN : OperationStarts(c, ok)) /\ UNCHANGED exceptPdf)
          /\ WF_allvars(((\E ok \in BOOLEAN : OperationSettles(c, ok)) \/ Timeout(c))
                        /\ UNCHANGED exceptPdf)

\* ---- the pools under load: more documents, collaborators that never fail
InitPool == Start(PoolLoaded, 0) /\ OthersInit

SpecPool == InitPool /\ [][Next]_allvars

\* ---- the selection functions on their own: the managers applied to a
\* document in the middle of its processing (any mix of settled pages, no
\* batch in flight, the last update not yet rendered), or to a fresh one
SelRows ==
    {NewPage,
     [status |-> "error", text |-> 0, img |-> 1, audio |-> "none"],
     [status |-> "ready", text |-> 2000, img |-> 1, audio |-> "blob"]}
    \cup {[status |-> "extracted", text |-> L, img |-> 1, audio |-> "none"] : L \in SelLens}

SelLedgers ==
    UNION {[1..n -> SelRows] : n \in 1..SelPages}
    \cup {InitialPages(n) : n \in 1..FreshPages}

InitSelect ==
    /\ mounted = TRUE
    /\ pdfDoc = 1
    /\ pages \in SelLedgers
    /\ totalPages = Len(pages)
    /\ currentPlayingPage \in 1..Len(pages)
    /\ processingMode \in Modes
    /\ processingMode = "text" => \A k \in 1..Len(pages) : pages[k].status # "extracted"
    /\ activeExtractionWorkers = 0
    /\ activeSynthesisWorkers = 0
    /\ apiError = FALSE
    /\ dispatchedPages = {}
    /\ eBatches = {}
    /\ sBatches = {}
    /\ renderLock = <<>>
    /\ dirty = TRUE
    /\ pagesLeft = 0
    /\ faultsLeft = 0
    /\ OthersInit

NextSelect ==
    \/ Render /\ UNCHANGED others
    \/ \E c \in {currentPlayingPage - 1, currentPlayingPage + 1} :
          MovePage(c) /\ UNCHANGED others

SpecSelect == InitSelect /\ [][NextSelect]_allvars

\* ------------------------------------------------------------------ claims

\* C1: in every reachable state at most MAX_EXTRACTION_WORKERS extraction
\* batches (performBatchExtraction started and not yet settled) are in flight.
C1_ExtractionBound == Cardinality(eBatches) <= MAX_EXTRACTION_WORKERS

\* the pool is full, rendered, and a pending undispatched page has to wait
C1_PoolFull ==
    /\ mounted /\ ~dirty /\ pdfDoc # 0
    /\ Cardinality(eBatches) = MAX_EXTRACTION_WORKERS
    /\ \E k \in 1..totalPages : PendingFree(pages, dispatchedPages, k)

\* C2: in every reachable state at most MAX_SYNTHESIS_WORKERS synthesis
\* batches (performBatchSynthesis started and not yet settled) are in flight.
C2_SynthesisBound == Cardinality(sBatches) <= MAX_SYNTHESIS_WORKERS

\* the pool is full, rendered, and an extracted page has to wait
C2_PoolFull ==
    /\ mounted /\ ~dirty /\ pdfDoc # 0 /\ processingMode = "audio"
    /\ Cardinality(sBatches) = MAX_SYNTHESIS_WORKERS
    /\ \E k \in 1..Len(pages) : k <= totalPages /\ pages[k].status = "extracted"

\* C3: Dispatch Set exclusivity: no page number is a member of two
\* extraction batches that are both in flight.
C3_Exclusive ==
    \A b1 \in eBatches, b2 \in eBatches :
        b1 # b2 => Range(b1.pgs) \cap Range(b2.pgs) = {}

\* C4: every change of a page's status is a move of the state machine
\* pending -> analyzing -> (extracted | error), extracted -> synthesizing ->
\* ready, with analyzing -> ready in text-only mode only.  The pages of a
\* newly loaded document start as pending.
StatusMoves(mode) ==
    {<<"pending", "analyzing">>, <<"analyzing", "extracted">>, <<"analyzing", "error">>,
     <<"extracted", "synthesizing">>, <<"synthesizing", "ready">>}
    \cup (IF mode = "text" THEN {<<"analyzing", "ready">>} ELSE {})

C4_StateMachine ==
    [][\A k \in 1..Len(pages') :
          LET old == IF pdfDoc = 0 /\ pdfDoc' # 0 THEN "pending" ELSE RowAt(pages, k).status
              new == pages'[k].status
          IN  old = new \/ <<old, new>> \in StatusMoves(processingMode)]_vars

\* C5: when a batch whose scope was cancelled settles, every page of the
\* batch holds exactly the record (status, text, image, audio) it held right
\* before the batch started (the ledger being the one the batch started on,
\* of a component that is still mounted).
C5_CancelRestores ==
    [][/\ \A b \in eBatches :
            (mounted' /\ b.scope = "aborted" /\ b.doc = 1 /\ \A c \in eBatches' : c.id # b.id)
            => \A k \in 1..Len(b.pgs) : RowAt(pages', b.pgs[k]) = b.before[k]
       /\ \A b \in sBatches :
            (mounted' /\ b.scope = "aborted" /\ b.doc = 1 /\ \A c \in sBatches' : c.id # b.id)
            => \A k \in 1..Len(b.pgs) : RowAt(pages', b.pgs[k]) = b.before[k]]_vars

\* C6: a step of a batch (a continuation after one of its awaits) whose
\* scope has been aborted leaves the page ledger unchanged, also when the
\* scope of a new document has been installed since.
C6_NoWriteAfterAbort ==
    [][/\ \A b \in eBatches :
            (b.scope = "aborted" /\ b \notin eBatches' /\ pdfDoc' = pdfDoc /\ mounted' = mounted)
            => pages' = pages
       /\ \A b \in sBatches :
            (b.scope = "aborted" /\ b \notin sBatches' /\ pdfDoc' = pdfDoc /\ mounted' = mounted)
            => pages' = pages]_vars

\* C7: when a synthesis batch whose scope is not cancelled fails (quota or
\* another error), every page of the batch is left in status ready without
\* audio, and not in status error.
C7_FailureKeepsText ==
    [][\A b \in sBatches :
          (b.scope = "live" /\ b \notin sBatches' /\ faultsLeft' = faultsLeft - 1)
          => \A k \in 1..Len(b.pgs) :
                b.pgs[k] \in 1..Len(pages')
                => /\ pages'[b.pgs[k]].status = "ready"
                   /\ pages'[b.pgs[k]].audio # "blob"]_vars

\* a synthesis failure has happened: in audio mode a page with text is ready
\* without audio and the advisory of the quota failure is shown
C7_FailedBatch ==
    /\ mounted /\ processingMode = "audio" /\ apiError /\ sBatches = {}
    /\ \E k \in 1..Len(pages) :
          pages[k].status = "ready" /\ pages[k].audio = "none" /\ pages[k].text > 0

\* C8: every synthesis batch selected by findBatchToSynth has a total
\* character count of at most MAX_TTS_CHARS_PER_BATCH, except a batch of
\* exactly one page whose text alone exceeds the budget.
C8_CharBudget ==
    \A b \in sBatches :
        \/ SumSeq(b.text) <= MAX_TTS_CHARS_PER_BATCH
        \/ Len(b.pgs) = 1 /\ b.text[1] > MAX_TTS_CHARS_PER_BATCH

\* a lone over-budget page and a two-page batch that uses the whole budget
C8_BothKinds ==
    \E b1 \in sBatches, b2 \in sBatches :
        /\ Len(b1.pgs) = 1 /\ b1.text[1] > MAX_TTS_CHARS_PER_BATCH
        /\ Len(b2.pgs) = 2 /\ SumSeq(b2.text) = MAX_TTS_CHARS_PER_BATCH

\* ---- selection, stated without the scan loops
Eligible(k) == k \in 1..Len(pages) /\ pages[k].status = "pending" /\ k \notin dispatchedPages

\* the run the proximity rule asks for at view position cur (<<>>: none)
ProximityRun(cur) ==
    LET fwd  == {k \in cur..totalPages : Eligible(k)}
        back == {k \in 1..(cur - 1) : Eligible(k)}
        from == IF fwd # {} THEN Min(fwd) ELSE Min(back)
        upto == IF fwd # {} THEN totalPages ELSE cur - 1
        n    == Max({m \in 1..BATCH_SIZE_EXTRACTION :
                       \A j \in 0..(m - 1) : from + j <= upto /\ Eligible(from + j)})
    IN  IF fwd = {} /\ back = {} THEN <<>> ELSE [j \in 1..n |-> from + j - 1]

GreedyRun(cur) ==
    LET ext(k)  == k \in 1..Len(pages) /\ pages[k].status = "extracted"
        fwd     == {k \in cur..totalPages : ext(k)}
        all     == {k \in 1..totalPages : ext(k)}
        from    == IF fwd # {} THEN Min(fwd) ELSE Min(all)
        chars(e) == SumSeq([j \in 1..(e - from + 1) |-> pages[from + j - 1].text])
        ok(e)   == \A j \in from..e :
                      ext(j) /\ (j > from => chars(j) <= MAX_TTS_CHARS_PER_BATCH)
        last    == Max({e \in from..totalPages : ok(e)})
    IN  IF all = {} THEN <<>> ELSE [j \in 1..(last - from + 1) |-> from + j - 1]

\* C10: at every scheduling pass with a free slot the synthesis batch
\* dispatched starts at the first extracted page at or after the view
\* position (else at the first extracted page of the document), contains at
\* least that page, and extends over consecutive extracted pages until the
\* end of the document, a page that is not extracted, or a page whose
\* addition would exceed MAX_TTS_CHARS_PER_BATCH.
C10_Greedy ==
    [][LET new == {b.pgs : b \in sBatches' \ sBatches}
           run == GreedyRun(currentPlayingPage')
       IN  IF /\ processingMode = "audio"
              /\ activeSynthesisWorkers < MAX_SYNTHESIS_WORKERS
              /\ run # <<>>
           THEN new = {run}
           ELSE new = {}]_vars

\* C16: while a document is loaded in text-only mode no synthesis batch is
\* started and no page has status extracted or synthesizing (an extracted
\* page goes from analyzing directly to ready).
C16_TextOnly ==
    [][(processingMode' = "text" /\ pdfDoc' # 0)
       => /\ \A b \in sBatches' : \E c \in sBatches : c.id = b.id
          /\ \A k \in 1..Len(pages') :
                /\ pages'[k].status \notin {"extracted", "synthesizing"}
                /\ (RowAt(pages, k).status = "analyzing" /\ pages'[k].text > 0)
                   => pages'[k].status \in {"analyzing", "ready"}]_vars

\* ---- RequestScheduler
Running == {t \in Tasks : scheduler.task[t] = "running"}

Started(t) == scheduler.task[t] \in {"running", "resolved", "rejected"}

\* C11: the scheduler never has more than maxConcurrent tasks running.
C11_MaxConcurrent == Cardinality(Running) <= maxConcurrent

C11_Saturated == Cardinality(Running) = maxConcurrent /\ scheduler.queue # <<>>

\* C12: between any two consecutive dispatches at least minInterval elapses,
\* whatever calls of process() coincide.
C12_MinInterval == scheduler.minGap >= minInterval

C12_Spaced ==
    /\ Cardinality({t \in Tasks : Started(t)}) >= 2
    /\ Len(scheduler.timers) >= 2 /\ scheduler.timers[1] = scheduler.timers[2]

\* C13: a task queued under a signal that is never aborted is eventually
\* started, and a started task's promise settles with the task's outcome.
C13_EventuallyStarted ==
    \A t \in Tasks :
        /\ (scheduler.task[t] = "queued")
              ~> (Started(t) \/ scheduler.signal[t] \in scheduler.aborted)
        /\ (scheduler.task[t] = "running")
              ~> (scheduler.task[t] \in {"resolved", "rejected"})

C13_WaitedForSlot ==
    \E t \in Tasks :
        /\ scheduler.task[t] = "resolved" /\ t > maxConcurrent
        /\ scheduler.signal[t] \notin scheduler.aborted

\* C14: a task whose signal is aborted before add() or while it is queued is
\* never invoked: it leaves the queue only rejected with the abort error, and
\* it does leave the queue.
C14_AbortedNeverRun ==
    /\ [][\A t \in Tasks :
            LET was == scheduler.task[t]
                now == scheduler'.task[t]
                off == scheduler.signal[t] \in scheduler.aborted
            IN  /\ (was = "new" /\ scheduler'.signal[t] \in scheduler.aborted)
                      => now = "aborted"
                /\ (was = "queued" /\ off) => now \in {"queued", "aborted"}
                /\ (was = "queued" /\ now = "aborted") => off
                /\ was = "aborted" => now = "aborted"]_allvars
    /\ \A t \in Tasks :
          (/\ scheduler.task[t] = "queued"
           /\ scheduler.signal[t] \in scheduler.aborted)
             ~> (scheduler.task[t] = "aborted")

C14_Rejected ==
    \E t, u \in Tasks :
        /\ t < u /\ scheduler.task[t] = "aborted" /\ scheduler.task[u] = "aborted"
        /\ Len(scheduler.queue) > 0 /\ scheduler.activeCount > 0

\* ---- render lock
\* C15: at most one PDF.js operation started through extractPageText or
\* renderPageToImage is in progress at any time, whether operations complete,
\* fail or hit their timeout.
C15_OneOperation == Cardinality(pdf.ops) <= 1

\* ---- audio-timing reconstruction
Before(a, b) == a.n * b.d <= b.n * a.d

Plus(a, b) ==
    LET c == IF a.d = b.d THEN [n |-> a.n + b.n, d |-> a.d]
             ELSE [n |-> a.n * b.d + b.n * a.d, d |-> a.d * b.d]
    IN  IF c.n % c.d = 0 THEN [n |-> c.n \div c.d, d |-> 1] ELSE c

RECURSIVE SpokenTime(_)
SpokenTime(segs) ==
    IF segs = <<>> THEN [n |-> 0, d |-> 1]
    ELSE IF Head(segs).isSilence THEN SpokenTime(Tail(segs))
    ELSE Plus(Head(segs).duration, SpokenTime(Tail(segs)))

\* C17: the startTime values of a page's segment list never decrease in
\* list order.
C17_StartsOrdered ==
    tts.done => \A k \in 1..(Len(tts.segments) - 1) :
                    Before(tts.segments[k].startTime, tts.segments[k + 1].startTime)

\* C18: the durations of a page's non-silence segments sum to at most the
\* duration of the page audio.
C18_WithinAudio ==
    tts.done => Before(SpokenTime(tts.segments), [n |-> numSamples(tts.pcm), d |-> 1])

\* C19: with fewer silence boundaries than sentences the final sentence
\* runs from the last used boundary to the end of the page audio, and no
\* sentence or word segment has a negative duration.
C19_LastAbsorbs ==
    LET pauses == pauseTimestamps(tts.pcm)
        last   == tts.blocks[Len(tts.blocks)]
    IN  (tts.done /\ Len(pauses) < Len(tts.sentences))
        => /\ last.startTime = IF pauses = <<>> THEN 0 ELSE pauses[Len(pauses)]
           /\ last.startTime + last.duration = numSamples(tts.pcm)
           /\ \A k \in 1..Len(tts.blocks) : tts.blocks[k].duration >= 0
           /\ \A k \in 1..Len(tts.segments) : tts.segments[k].duration.n >= 0

\* ---- waveform concatenation
\* the number a little-endian field holds
Field(buffer, offset, n) ==
    SumSeq([k \in 1..n |-> buffer[offset + k] * <<1, 256, 65536, 16777216>>[k]])

Samples(container) == SubSeq(container, HeaderLength + 1, Len(container))

\* C20: the concatenation of the ready pages' containers starts with the
\* first container's header with only the two length fields rewritten,
\* declares as data length the sum of the containers' data lengths, and holds
\* each container's samples without its 44-byte header, in page order.
C20_Concatenation ==
    wav.done =>
      LET out   == wav.finalBuffer
          first == wav.blobs[wav.readyPages[1]]
          urls  == Unique(wav.readyPages, {})
          total == SumSeq([k \in 1..Len(urls) |-> Field(wav.blobs[urls[k]], 40, 4)])
      IN  /\ \A k \in 1..HeaderLength :
                k \notin (5..8) \cup (41..44) => out[k] = first[k]
          /\ Field(out, 40, 4) = total
          /\ Field(out, 4, 4) = 36 + total
          /\ Len(out) = HeaderLength + total
          /\ Samples(out) = Flatten([k \in 1..Len(urls) |-> Samples(wav.blobs[urls[k]])])

C20_TwoContainers ==
    /\ wav.done /\ Len(wav.readyPages) = 3
    /\ wav.readyPages[1] # wav.readyPages[2]
    /\ \A u \in Urls : Len(wav.blobs[u]) > HeaderLength

\* ---- results, failures and cancellation of batches
Ids(B) == {b.id : b \in B}

\* the extraction batches whose collaborator call settles in this step, and
\* the synthesis batches that settle in it
SettlingExtractions == {b \in eBatches : b.op = "collab" /\ b.id \notin Ids(eBatches')}

SettlingSyntheses == {b \in sBatches : b.id \notin Ids(sBatches')}

\* C21: a batch result is applied to a page only if the page still has the
\* status the batch gave it (analyzing for an extraction, synthesizing for a
\* synthesis); a page whose status has changed since is left untouched by
\* the result (a failure of the batch only sets the status error or ready).
C21_GuardedApply ==
    [][/\ \A b \in SettlingExtractions : \A p \in Range(b.pgs) :
             RowAt(pages, p).status # "analyzing"
                => \/ RowAt(pages', p) = RowAt(pages, p)
                   \/ RowAt(pages', p) = [RowAt(pages, p) EXCEPT !.status = "error"]
       /\ \A b \in SettlingSyntheses : \A p \in Range(b.pgs) :
             RowAt(pages, p).status # "synthesizing"
                => \/ RowAt(pages', p) = RowAt(pages, p)
                   \/ RowAt(pages', p) = [RowAt(pages, p) EXCEPT !.status = "ready"]]_vars

\* C22: a page is in the Dispatch Set from the moment its extraction batch is
\* chosen until the batch's outcome has been applied; it is never removed
\* earlier.  Stated for the batches whose scope has not been cancelled.
C22_ClaimedWhileInFlight ==
    \A b \in eBatches : b.scope = "live" => Range(b.pgs) \subseteq dispatchedPages

\* the live extraction batches of the loaded document whose collaborator call
\* fails in this step
FailingExtractions ==
    {b \in SettlingExtractions :
        /\ b.scope = "live" /\ b.doc = 1 /\ mounted' /\ faultsLeft' = faultsLeft - 1
        /\ \E p \in b.payload : RowAt(pages', p).status = "error"}

\* the ledger with every page but p done
OnlyLeft(pgs, p) ==
    [k \in 1..Len(pgs) |-> IF k = p THEN pgs[k] ELSE [pgs[k] EXCEPT !.status = "ready"]]

\* with page p in view and nothing else to do, a scheduling pass selects p
Retryable(pgs, disp, p) ==
    p \in Range(findBatchToExtract(OnlyLeft(pgs, p), disp, p, Len(pgs)))

\* the part of C23 that holds: the pages of a failed batch are set to error
\* and leave the Dispatch Set
C23_ErrorAndReleased ==
    [][\A b \in FailingExtractions : \A p \in Range(b.pgs) :
          RowAt(pages', p).status = "error" /\ p \notin dispatchedPages']_vars

\* C23: after an extraction batch fails for a reason other than cancellation,
\* every page of the batch has status error, is out of the Dispatch Set, and a
\* later scheduling pass of the extraction pool can select it again.
C23_FailedRetryable ==
    [][\A b \in FailingExtractions : \A p \in Range(b.pgs) :
          /\ RowAt(pages', p).status = "error" /\ p \notin dispatchedPages'
          /\ Retryable(pages', dispatchedPages', p)]_vars

Finished(pgs) == \A k \in 1..Len(pgs) : pgs[k].status \in {"ready", "error"}

\* C24: while the scope of the document is not cancelled and every call
\* returns or fails, every page eventually reaches status ready or error,
\* whichever pages or batches fail.
C24_Progress ==
    (pdfDoc # 0) ~> (Len(pages) = totalPages /\ Finished(pages) /\ eBatches = {} /\ sBatches = {})

C24_DoneDespiteFailures ==
    /\ pdfDoc # 0 /\ Len(pages) = LivePages /\ Finished(pages) /\ faultsLeft = 0
    /\ \E k \in 1..Len(pages) : pages[k].status = "error"
    /\ \E k \in 1..Len(pages) : pages[k].status = "ready"

\* the batches whose renderPageToImage call fails in this step
FailingRasters ==
    {b \in eBatches : /\ b.op = "render" /\ b \notin eBatches'
                      /\ renderLock # <<>> /\ Head(renderLock) = b.id
                      /\ faultsLeft' = faultsLeft - 1}

After(b) == {c \in eBatches' : c.id = b.id}

\* C25: when the raster step of one page of a batch fails, that page alone
\* becomes error; the remaining pages are still submitted to the extraction
\* collaborator and advance on its result, which never overwrites the error
\* status of the failed page.
C25_RasterFailureLocal ==
    [][/\ \A b \in FailingRasters :
            LET p == b.pgs[b.i] IN
            /\ \A k \in 1..Len(pages') : k # p => pages'[k] = pages[k]
            /\ (mounted /\ p <= Len(pages)) => pages'[p].status = "error"
            /\ IF b.i < Len(b.pgs)
               THEN \E c \in After(b) : c.i = b.i + 1 /\ c.payload = b.payload
               ELSE b.payload # {}
                    => \E c \in After(b) : c.op = "collab" /\ c.payload = b.payload
       /\ \A b \in SettlingExtractions :
            /\ \A p \in Range(b.pgs) \ b.payload :
                  RowAt(pages, p).status = "error" => RowAt(pages', p) = RowAt(pages, p)
            /\ (b.scope = "live" /\ mounted /\ faultsLeft' = faultsLeft)
                  => \A p \in b.payload :
                        RowAt(pages, p).status = "analyzing"
                        => /\ pages'[p].status \in {"extracted", "ready"}
                           /\ pages'[p].text > 0]_vars

\* a batch is at the collaborator without one of its pages, which is error
C25_SubmittedWithoutFailed ==
    \E b \in eBatches :
        /\ b.op = "collab" /\ b.scope = "live" /\ mounted
        /\ \E p \in Range(b.pgs) \ b.payload : RowAt(pages, p).status = "error"

NewlySet(p, sts) ==
    RowAt(pages', p).status \in sts /\ RowAt(pages', p).status # RowAt(pages, p).status

\* C26: cancellation is silent: when a batch ends because the signal its
\* collaborator call was given has been aborted (the call throws instead of
\* retrying, or throws the abort error), the advisory is not set and no page
\* of the batch is set to error or ready on that path.
C26_SilentCancel ==
    [][/\ \A b \in SettlingExtractions :
            b.sig = "aborted"
            => /\ apiError' = apiError
               /\ \A p \in Range(b.pgs) : ~NewlySet(p, {"error"})
       /\ \A b \in SettlingSyntheses :
            (b.sig = "aborted" /\ ~AllEmpty(b))
            => /\ apiError' = apiError
               /\ \A p \in Range(b.pgs) : ~NewlySet(p, {"error", "ready"})]_vars

Unaffected(B, B2) ==
    /\ Cardinality(B \ B2) <= 1
    /\ \A c \in B : c.id \in Ids(B2) => c \in B2

ManagersIdle ==
    /\ activeExtractionWorkers < MAX_EXTRACTION_WORKERS
          => findBatchToExtract(pages, dispatchedPages, currentPlayingPage, totalPages) = <<>>
    /\ (processingMode = "audio" /\ activeSynthesisWorkers < MAX_SYNTHESIS_WORKERS)
          => findBatchToSynth(pages, currentPlayingPage, totalPages).batch = <<>>

\* C27: a quota failure sets the advisory without touching the scope: the
\* step that sets it is a failure of one batch, leaves the document, the
\* mount and every other batch in flight as they were, and once the advisory
\* is set the managers still dispatch every eligible batch on their next
\* pass; the advisory never goes back to unset.
C27_StickyAdvisory ==
    [][/\ apiError => apiError'
       /\ (~apiError /\ apiError')
            => /\ faultsLeft' = faultsLeft - 1
               /\ mounted' = mounted /\ pdfDoc' = pdfDoc
               /\ Unaffected(eBatches, eBatches') /\ Unaffected(sBatches, sBatches')
               /\ Cardinality((eBatches \ eBatches') \cup (sBatches \ sBatches')) = 1
       /\ (apiError /\ mounted /\ ~dirty /\ pdfDoc # 0 /\ Len(pages) = totalPages)
            => ManagersIdle]_vars

\* the advisory is set while a batch of the same scope is still running
C27_AdvisoryWhileRunning ==
    /\ apiError /\ mounted /\ pdfDoc # 0 /\ ~dirty
    /\ \E b \in eBatches : b.scope = "live" /\ b.doc = 1
    /\ \E p \in 1..Len(pages) : pages[p].status = "error"

\* ---- retry loops
RetryOver == retry.pc \in {"returned", "thrown"}

\* C28: every retry loop ends after a bounded number of requests whatever
\* the failures are: at most one request more than the quota ceiling, at
\* most one more than the transient ceiling when no quota failure occurs,
\* no more failures of a kind than its ceiling plus one, and no request is
\* issued once the signal is aborted.
C28_BoundedRetries ==
    /\ [](retry.fn \in RetryLoops
            => /\ retry.requests <= QuotaCeiling(retry.fn) + 1
               /\ retry.quota <= QuotaCeiling(retry.fn) + 1
               /\ retry.transient <= TransientCeiling(retry.fn) + 1
               /\ retry.quota = 0 => retry.requests <= TransientCeiling(retry.fn) + 1)
    /\ [][retry'.requests > retry.requests => ~retry.aborted]_retry
    /\ <>RetryOver

\* retryGenerate gave up on quota failures after its last allowed request
C28_GaveUpAtCeiling ==
    /\ retry.fn = "retryGenerate" /\ retry.pc = "thrown" /\ ~retry.aborted
    /\ retry.requests = QuotaCeiling(retry.fn) + 1
    /\ retry.transient > 0

\* ---- stored text
IsWord(ch) == ch = "w"

\* the position of page p among the submitted pages in page-number order
PositionOf(p) == Cardinality({q \in extract.payload : q <= p})

NonBlank(section) == Has(section, "w")

\* C29: the text stored for a page is the section at the page's position
\* among the submitted pages in page-number order when that section is not
\* blank (its words in order, no sentinel, no blank at either end); when
\* the section is missing, empty, blank or holds only sentinels it is the
\* page's raw text, the empty string when there is none; sections past the
\* number of submitted pages change nothing.
C29_StoredText ==
    extract.done =>
        /\ \A p \in extract.payload :
              LET j == PositionOf(p)
                  t == extract.stored[p]
              IN  IF j <= Len(extract.sections) /\ NonBlank(extract.sections[j])
                  THEN /\ SelectSeq(t, IsWord) = SelectSeq(extract.sections[j], IsWord)
                       /\ \A k \in 1..Len(t) : t[k] \notin Sentinels
                       /\ ~IsSpace(t[1]) /\ ~IsSpace(t[Len(t)])
                  ELSE t = extract.rawText[p]
        /\ LET n == Cardinality(extract.payload)
               kept == SubSeq(extract.sections, 1, Min({n, Len(extract.sections)}))
           IN  \A p \in extract.payload :
                  extract.stored[p]
                    = originalText(extractScriptBatch(SortedPayload(extract.payload), kept)[p],
                                   extract.rawText[p])

\* a response with an extra section, one page stored from its section and
\* the other, whose section holds only the sentinel, from its raw text
C29_SectionAndFallback ==
    /\ extract.done /\ extract.payload = {1, 2} /\ Len(extract.sections) = 3
    /\ extract.sections[1] = <<"w", " ">> /\ extract.stored[1] = <<"w">>
    /\ extract.sections[2] = <<"[[EMPTY]]">> /\ extract.stored[2] = <<" ", "r">>

\* C30: no synthesis outcome changes a page's cleaned text: the step in
\* which a synthesis batch succeeds, fails or ends cancelled leaves the text
\* of every page of the batch as it was, and while a batch of the current
\* scope is in flight its pages hold the text the ledger had for them when
\* it was selected.
C30_TextKept ==
    [][/\ \A b \in SettlingSyntheses : \A p \in Range(b.pgs) :
            RowAt(pages', p).text = RowAt(pages, p).text
       /\ \A b \in sBatches :
            (b.scope = "live" /\ b.doc = 1)
            => \A k \in 1..Len(b.pgs) : RowAt(pages, b.pgs[k]).text = b.before[k].text]_vars

\* in one document a synthesis batch has succeeded and another has failed,
\* and both pages show their text
C30_TextAfterBothOutcomes ==
    /\ mounted /\ processingMode = "audio" /\ sBatches = {} /\ faultsLeft = 0
    /\ \E p, q \in 1..Len(pages) :
          /\ pages[p].status = "ready" /\ pages[p].audio = "blob" /\ pages[p].text > 0
          /\ pages[q].status = "ready" /\ pages[q].audio = "none" /\ pages[q].text > 0

\* ---- segments of a page
Same(a, b) == a.n * b.d = b.n * a.d

EndOf(seg) == Plus(seg.startTime, seg.duration)

\* C31: the segments of a page are contiguous and bounded: the first starts
\* at 0, each following one starts where the previous one ends, and the last
\* one ends no later than the duration of the page audio.
C31_Contiguous ==
    (tts.done /\ tts.segments # <<>>)
    => /\ tts.segments[1].startTime.n = 0
       /\ \A k \in 1..(Len(tts.segments) - 1) :
             Same(tts.segments[k + 1].startTime, EndOf(tts.segments[k]))
       /\ Before(EndOf(tts.segments[Len(tts.segments)]),
                 [n |-> numSamples(tts.pcm), d |-> 1])

\* ---- silence scan
SamplesBefore(pcm, k) == SumSeq([j \in 1..(k - 1) |-> pcm[j].len])

\* the maximal runs of silent samples, as [from, to) sample positions
SilentRuns(pcm) ==
    {[from |-> SamplesBefore(pcm, a), to |-> SamplesBefore(pcm, b + 1)] :
        <<a, b>> \in {ab \in (1..Len(pcm)) \X (1..Len(pcm)) :
                        /\ ab[1] <= ab[2]
                        /\ \A k \in ab[1]..ab[2] : pcm[k].silent
                        /\ ab[1] = 1 \/ ~pcm[ab[1] - 1].silent
                        /\ ab[2] = Len(pcm) \/ ~pcm[ab[2] + 1].silent}}

\* C32: the silence scan records exactly one boundary, at the end of the
\* run, for every maximal run of silent samples of at least the minimum
\* silence (6000 samples), and none for a shorter run.
C32_OnePerRun ==
    tts.done =>
        LET ends == {r.to : r \in {q \in SilentRuns(tts.pcm) :
                                     q.to - q.from >= minSilenceSamples}}
        IN  /\ Range(tts.pauses) = ends
            /\ Len(tts.pauses) = Cardinality(ends)

\* ---- waveform resources
\* C33: after the document is unloaded no waveform made for one of its
\* pages remains unreleased, those made by batches in flight at the unload
\* included: once the hook is unmounted and no synthesis batch is left, every
\* object URL has been revoked.
C33_AllReleased ==
    (~mounted /\ sBatches = {}) => objectUrls.unreleased = 0

\* ---- order of dispatch
\* C34: the scheduler is FIFO: whenever a task has been started, no task
\* submitted before it is still waiting in the queue, so the tasks that are
\* not cancelled start in the order of their add() calls (tasks are
\* submitted in the order of their numbers).
C34_Fifo ==
    \A t, u \in Tasks :
        (t < u /\ Started(u)) => scheduler.task[t] \in {"running", "resolved", "rejected", "aborted"}

\* the tasks submitted before and after a cancelled one have started while
\* a later one still waits
C34_PassedOver ==
    /\ Started(1) /\ scheduler.task[2] = "aborted" /\ Started(3)
    /\ scheduler.task[4] = "queued"

\* ---- synthesis pool
\* C35: no page number is a member of two synthesis batches that are in
\* flight at the same time.
C35_OneSynthesisPerPage ==
    \A b, c \in sBatches : b # c => Range(b.pgs) \cap Range(c.pgs) = {}

\* ---- worker counters
\* C36: the worker counters are exact: while the hook is mounted each equals
\* the number of batches of its stage that are in flight (so it is never
\* negative and is 0 when none is), and every step changes it by exactly the
\* number of batches started minus the number of batches that ended.
C36_ExactCounters ==
    [][/\ mounted => /\ activeExtractionWorkers = Cardinality(eBatches)
                     /\ activeSynthesisWorkers = Cardinality(sBatches)
       /\ mounted' => /\ activeExtractionWorkers' - activeExtractionWorkers
                           = Cardinality(Ids(eBatches') \ Ids(eBatches))
                             - Cardinality(Ids(eBatches) \ Ids(eBatches'))
                      /\ activeSynthesisWorkers' - activeSynthesisWorkers
                           = Cardinality(Ids(sBatches') \ Ids(sBatches))
                             - Cardinality(Ids(sBatches) \ Ids(sBatches'))]_vars

\* both counters are back at 0 after batches that failed and batches that
\* succeeded, in a scope entered after an earlier one was cancelled
C36_BackToZero ==
    /\ mounted /\ pdfDoc # 0 /\ eBatches = {} /\ sBatches = {}
    /\ activeExtractionWorkers = 0 /\ activeSynthesisWorkers = 0
    /\ faultsLeft = 0 /\ pagesLeft < MaxLoaded - Len(pages)
    /\ \E p, q \in 1..Len(pages) :
          pages[p].status = "error" /\ pages[q].status = "ready"

\* ---- ownership of Dispatch Set entries
Reset == pdfDoc' # pdfDoc \/ totalPages' # totalPages \/ mounted' # mounted

\* C37: a Dispatch Set entry is removed only by the batch that claimed it
\* or by a reset of the document or page list: outside a reset, no page
\* leaves the set while a batch of the current scope that claimed it is
\* still in flight.
C37_RemovedByOwner ==
    [][\A p \in dispatchedPages \ dispatchedPages' :
          \/ Reset
          \/ ~\E c \in eBatches \cap eBatches' :
                 c.scope = "live" /\ c.doc = 1 /\ p \in Range(c.pgs)]_vars

\* ---- in-progress statuses
HasStatus(st) == \E k \in 1..Len(pages) : pages[k].status = st

\* C38: no page is stranded in an in-progress status: while a document is
\* loaded and the hook mounted (the scope is not cancelled), no page is
\* analyzing when no extraction batch is in flight and no page is
\* synthesizing when no synthesis batch is in flight.
C38_NotStranded ==
    (mounted /\ pdfDoc # 0)
    => /\ eBatches = {} => ~HasStatus("analyzing")
       /\ sBatches = {} => ~HasStatus("synthesizing")

\* every page of a document of several pages has left the in-progress statuses
\* after a failure, with no batch in flight
C38_AllSettled ==
    /\ mounted /\ pdfDoc # 0 /\ eBatches = {} /\ sBatches = {} /\ ~dirty
    /\ Len(pages) > 1 /\ faultsLeft < MaxFaults
    /\ \A k \in 1..Len(pages) : pages[k].status \in {"ready", "error"}

\* ---- render lock: release, progress and order
Acquired(c) == pdf.call[c] \in {"holding", "running", "returned", "failed", "timedOut"}

Exited(c) == pdf.call[c] \in {"returned", "failed", "timedOut"}

C40_PageInRange ==
    playback.totalPages > 0 => playback.currentPlayingPage \in 1..playback.totalPages

====
